---- MODULE Spec2Model ----
(***************************************************************************)
(* Semantic cache in front of an expensive retrieval (src/src/cache.ts).   *)
(* The backing store holds two collections, sc_queries and sc_results; two *)
(* engines (instances of SemanticCache with different configurations) run  *)
(* the two retrieval protocols on top of it, one call in flight at a time, *)
(* concurrently with the background refreshes the calls dispatched, with   *)
(* invalidateByModelRev, clear and the store's TTL index.  Every action is *)
(* one step of a handler: a database operation (or the caller's retrieval  *)
(* function) together with the JavaScript that runs after it up to the     *)
(* next await.  Time is counted in hours; ttl_at, an ISO string of a       *)
(* millisecond instant in the program, is kept as that instant.            *)
(***************************************************************************)
EXTENDS Integers, Sequences, FiniteSets, TLC

(* ---------------- bounds of the model ---------------- *)
MaxKeys == 2          \* keys generateKey may hand out
MaxNow == 2           \* last instant of the clock
MaxHits == 2          \* largest hit_count a touch may produce
MaxDim == 3           \* longest vector handed to cosineSimilarity

(* ---------------- values ---------------- *)
Undefined == "<undefined>"        \* an absent optional string
None == <<>>                      \* null / undefined document
Some(x) == <<x>>

Truthy(s) == s /= Undefined /\ s /= ""

Min(a, b) == IF a <= b THEN a ELSE b

\* Array.prototype.slice(0, k)
Slice(items, k) == SubSeq(items, 1, Min(Len(items), k))

(* ---------------- configuration ---------------- *)
Engines == {"e1", "e2", "e3"}

embeddingModel(e) == "text-embedding-3-small"
rerankerModel(e) == IF e = "e2" THEN "rerank-v2" ELSE Undefined
configTenantId(e) == IF e = "e2" THEN "a" ELSE Undefined
defaultTtlMs(e) == CASE e = "e1" -> 1 [] e = "e2" -> 30 [] OTHER -> 3
topKCached(e) == IF e = "e2" THEN 1 ELSE 2
topKReturned(e) == IF e = "e2" THEN 2 ELSE 1

\* similarityThreshold = ThrNum / ThrDen
ThrNum == 4
ThrDen == 5

\* TTL_PRESETS, in hours
TTL_dynamic == 24
TTL_realtime == 2

getModelRevision(em, rr) == IF Truthy(rr) THEN <<em, rr>> ELSE <<em>>

modelRev(e) == getModelRevision(embeddingModel(e), rerankerModel(e))

(* ---------------- inputs ---------------- *)
Queries == {"Weather today?", "weather forecast", "iphone price"}
TenantArgs == {Undefined, "", "b"}
FreshOutputs == {<<1, 2, 3>>, <<4, 5>>}
Protocols == {"retrieve", "retrieveWithBackgroundRefresh"}

\* The callers of a run come from one of these populations; each varies some of the
\* inputs and keeps the others fixed.
\*   tenants:    both engines, every tenant argument, one text, retrieve, the clock
\*               stands still
\*   revisions:  both engines in one tenant's partition, one text, the clock stands still
\*   refreshes:  as revisions, retrieveWithBackgroundRefresh only, one more hit followed
\*   time:       one engine, no tenant, one text, the clock runs
\*   texts:      one engine, no tenant, every text, the clock stands still
\*   paraphrase: one engine, no tenant, two texts above the threshold of each other,
\*               retrieveWithBackgroundRefresh only, the clock runs
\*   stats:      the engine with a configured tenant, every tenant argument, one text,
\*               retrieve, the clock stands still, one more key and one more hit followed
\*   nearExpiry: the engine whose entries live three hours, no tenant, one text,
\*               retrieveWithBackgroundRefresh only, the clock runs
\* The runs that follow the background refreshes to their end have a population of
\* their own:
\*   refreshing: both engines in one tenant's partition, the two texts above the
\*               threshold of each other, every output of the retrieval function,
\*               retrieveWithBackgroundRefresh only, the clock stands still
\* and so have the runs with calls that overlap:
\*   concurrent: two callers of one configuration but for defaultTtlMs, no tenant, the
\*               two texts above the threshold of each other, every output of the
\*               retrieval function, retrieve only, the clock stands still
Worlds ==
  {"tenants", "revisions", "refreshes", "time", "texts", "paraphrase", "stats", "nearExpiry"}

EnginesIn(w) ==
  CASE w \in {"tenants", "revisions", "refreshes", "refreshing"} -> {"e1", "e2"}
    [] w = "stats" -> {"e2"}
    [] w = "nearExpiry" -> {"e3"}
    [] w = "concurrent" -> {"e1", "e3"}
    [] OTHER -> {"e1"}
TenantArgsIn(w) ==
  CASE w \in {"tenants", "stats"} -> TenantArgs
    [] w \in {"revisions", "refreshes", "refreshing"} -> {"b"}
    [] OTHER -> {Undefined}
QueriesIn(w) ==
  CASE w = "texts" -> Queries
    [] w \in {"time", "nearExpiry"} -> {"weather forecast"}
    [] w \in {"paraphrase", "refreshing", "concurrent"} ->
         {"weather forecast", "Weather today?"}
    [] OTHER -> {"iphone price"}
ProtocolsIn(w) ==
  CASE w \in {"tenants", "stats", "concurrent"} -> {"retrieve"}
    [] w \in {"refreshes", "paraphrase", "nearExpiry", "refreshing"} ->
         {"retrieveWithBackgroundRefresh"}
    [] OTHER -> Protocols
FreshOutputsIn(w) ==
  IF w \in {"texts", "refreshing", "concurrent"} THEN FreshOutputs ELSE {<<1, 2, 3>>}
ClockRuns(w) == w \in {"time", "paraphrase", "nearExpiry"}
\* the maxAgeMs of the eviction sweeps; where the clock stands still no query ages
MaxAgesIn(w) == IF w \in {"time", "paraphrase"} THEN {0, 1} ELSE {}
\* the hit_count up to which touches are followed; two engines need a hit each before
\* both have dispatched a refresh of one entry
HitsIn(w) == IF w \in {"refreshes", "stats"} THEN MaxHits + 1 ELSE MaxHits
\* the keys generateKey hands out; three entries of distinct partitions need three
KeysIn(w) == IF w = "stats" THEN MaxKeys + 1 ELSE MaxKeys

\* normalizeText: lower case, punctuation to blanks, blanks collapsed, trimmed
normalizeText(text) == IF text = "Weather today?" THEN "weather today" ELSE text

\* the embedding provider: one fixed non-zero vector per text
embed(text) ==
  CASE text = "weather today" -> <<4, 3>>
    [] text = "weather forecast" -> <<3, 4>>
    [] OTHER -> <<1, 0>>

\* extractIntent on the three texts
extractIntent(text) ==
  CASE text = "Weather today?" ->
         [entities |-> {"WEATHER", "TODAY"}, facets |-> {}, timebox |-> "today"]
    [] text = "weather forecast" ->
         [entities |-> {"WEATHER", "FORECAST"}, facets |-> {}, timebox |-> Undefined]
    [] OTHER ->
         [entities |-> {"IPHONE", "PRICE"}, facets |-> {"price"}, timebox |-> Undefined]

(* ---------------- freshness policy ---------------- *)
volatileFacets == {"price", "review", "today", "news"}

\* the intents and the baseTtlMs handed to computeTtl: with and without a timebox,
\* with facets that are volatile ("price", "today") and one that is not ("how"), with
\* a baseTtlMs below, at and above the dynamic preset
Timeboxes == {Undefined, "today"}
FacetWords == {"price", "today", "how"}
Intents ==
  { [entities |-> {}, facets |-> f, timebox |-> tb] :
      f \in SUBSET FacetWords, tb \in Timeboxes }
BaseTtls == {1, TTL_dynamic, 30}

\* a computeTtl that takes the shortest of the durations that apply
computeTtlShortest(intent, baseTtlMs, t) ==
  LET ttl1 == IF Truthy(intent.timebox) THEN Min(baseTtlMs, TTL_dynamic) ELSE baseTtlMs
      ttl2 == IF intent.facets \cap volatileFacets /= {}
              THEN Min(ttl1, TTL_dynamic) ELSE ttl1
  IN t + ttl2

\* computeTtl: the absolute expiry computed at instant t
computeTtl(intent, baseTtlMs, t) ==
  LET ttl1 == IF Truthy(intent.timebox) THEN TTL_dynamic ELSE baseTtlMs
      ttl2 == IF intent.facets \cap volatileFacets /= {}
              THEN Min(ttl1, TTL_dynamic) ELSE ttl1
  IN t + ttl2

(* ---------------- similarity ---------------- *)
RECURSIVE SumTo(_, _)
SumTo(f, n) == IF n = 0 THEN 0 ELSE f[n] + SumTo(f, n - 1)

Dot(a, b) == SumTo([i \in 1..Len(a) |-> a[i] * b[i]], Len(a))

\* COSINE_SIMILARITY(a, b) = dot / sqrt(na * nb), kept exact as a triple
COSINE_SIMILARITY(a, b) == [dot |-> Dot(a, b), na |-> Dot(a, a), nb |-> Dot(b, b)]

Sq(x) == x * x
Sign(x) == IF x < 0 THEN -1 ELSE 1

\* sim > similarityThreshold
AboveThresholdStrict(s) ==
  /\ s.dot >= 0
  /\ Sq(ThrDen) * Sq(s.dot) > Sq(ThrNum) * s.na * s.nb

\* sim >= similarityThreshold
AboveThreshold(s) ==
  /\ s.dot >= 0
  /\ Sq(ThrDen) * Sq(s.dot) >= Sq(ThrNum) * s.na * s.nb

\* s1 >= s2 as real numbers
SimGeq(s1, s2) ==
  Sign(s1.dot) * Sq(s1.dot) * s2.na * s2.nb >= Sign(s2.dot) * Sq(s2.dot) * s1.na * s1.nb

\* similarity is 1
SimIsOne(s) == s.dot > 0 /\ Sq(s.dot) = s.na * s.nb

\* the vectors handed to cosineSimilarity: every length up to MaxDim, the empty vector
\* and the vectors of zeros included
Components == {-1, 0, 2}
Vectors == UNION { [1..n -> Components] : n \in 0..MaxDim }

\* the number 0 as a similarity
SimZero == [dot |-> 0, na |-> 1, nb |-> 1]

\* a cosineSimilarity that returns the dot product
cosineSimilarityUnnormalised(a, b) ==
  IF Len(a) /= Len(b)
  THEN [threw |-> TRUE, message |-> <<"Vector dimension mismatch", Len(a), Len(b)>>,
        value |-> None]
  ELSE [threw |-> FALSE, message |-> <<>>,
        value |-> Some([dot |-> Dot(a, b), na |-> 1, nb |-> 1])]

\* a cosineSimilarity that compares the components both vectors have
cosineSimilarityTruncating(a, b) ==
  LET n == Min(Len(a), Len(b))
      x == SubSeq(a, 1, n)
      y == SubSeq(b, 1, n)
  IN [threw |-> FALSE, message |-> <<>>,
      value |-> Some(IF Dot(x, x) = 0 \/ Dot(y, y) = 0 THEN SimZero
                     ELSE [dot |-> Dot(x, y), na |-> Dot(x, x), nb |-> Dot(y, y)])]

\* cosineSimilarity of embeddings.ts: throws when the lengths differ; magnitude
\* sqrt(normA) * sqrt(normB) is 0 exactly when one of the norms is, and then the
\* value is 0; otherwise dotProduct / magnitude, kept exact as a triple
cosineSimilarity(a, b) ==
  IF Len(a) /= Len(b)
  THEN [threw |-> TRUE, message |-> <<"Vector dimension mismatch", Len(a), Len(b)>>,
        value |-> None]
  ELSE [threw |-> FALSE, message |-> <<>>,
        value |-> Some(IF Dot(a, a) = 0 \/ Dot(b, b) = 0 THEN SimZero
                       ELSE [dot |-> Dot(a, b), na |-> Dot(a, a), nb |-> Dot(b, b)])]

(* ---------------- state ---------------- *)
VARIABLES
  now,        \* Date.now()
  queries,    \* collection sc_queries: set of QueryDocument
  results,    \* collection sc_results: set of QueryResultsDocument
  nextKey,    \* generateKey: the next unused key
  calls,      \* per engine: position and locals of its call in flight
  tasks,      \* per engine: the background refresh it dispatched last
  clearPc,    \* position of a running clear()
  world,      \* the population the callers of this run come from
  returned,   \* history: the call that ended in the last step, with its outcome
  fresh,      \* history: the retrieve call that has just stored an entry, while
              \* nothing but its caller's identical next call has run since
  simCall,    \* a call of cosineSimilarity: its arguments and its outcome
  ttlCall     \* a call of computeTtl: its arguments, Date.now() and its outcome

vars == <<now, queries, results, nextKey, calls, tasks, clearPc, world, returned, fresh,
         simCall, ttlCall>>

\* locals of a call; follow, sawOrphan, fnCalls, writes and matched (the number of
\* documents the call's update found) are history, read by no handler
IdleCall ==
  [pc |-> "idle", proto |-> "none", tenantArg |-> Undefined, query |-> "",
   cached |-> None, at |-> 0, freshItems |-> <<>>, queryKey |-> 0, ttlAt |-> 0,
   refresh |-> FALSE, error |-> "", follow |-> FALSE, sawOrphan |-> FALSE,
   fnCalls |-> 0, writes |-> 0, matched |-> 0]

\* parameters of a backgroundRefresh; later is history: the refresh was dispatched while
\* another one of the same entry was running, and none was dispatched since
IdleTask == [pc |-> "idle", queryKey |-> 0, intent |-> None, later |-> FALSE]

NoSimCall == [pc |-> "none", a |-> <<>>, b |-> <<>>, out |-> None]

NoTtlCall ==
  [pc |-> "none", intent |-> [entities |-> {}, facets |-> {}, timebox |-> Undefined],
   baseTtlMs |-> 0, out |-> None]

Init ==
  /\ now = 0
  /\ queries = {}
  /\ results = {}
  /\ nextKey = 1
  /\ calls = [e \in Engines |-> IdleCall]
  /\ tasks = [e \in Engines |-> IdleTask]
  /\ clearPc = "idle"
  /\ world \in Worlds
  /\ returned = None
  /\ fresh = None
  /\ simCall = NoSimCall
  /\ ttlCall = NoTtlCall

(* ---------------- the backing store ---------------- *)
ResultsOf(key) == {r \in results : r.query_id = key}

\* FIRST(FOR res IN results FILTER res.query_id == q._key RETURN res)
FirstResult(key) ==
  IF ResultsOf(key) = {} THEN {None} ELSE {Some(r) : r \in ResultsOf(key)}

\* the rows of the search query before its filters: the fields of the two documents
\* that the handlers read, and the similarity
Rows(queryVec) ==
  UNION { { [query |-> [_key |-> q._key, intent |-> q.intent, tenant_id |-> q.tenant_id],
             results |-> IF r = None THEN None
                         ELSE Some([items |-> r[1].items, model_rev |-> r[1].model_rev,
                                    ttl_at |-> r[1].ttl_at]),
             similarity |-> COSINE_SIMILARITY(q.q_vec, queryVec)]
            : r \in FirstResult(q._key) } : q \in queries }

\* the search query without its join filter (FILTER r != null)
CandidatesWithOrphans(queryVec, tenantId) ==
  { m \in Rows(queryVec) :
      /\ Truthy(tenantId) => m.query.tenant_id = tenantId
      /\ AboveThreshold(m.similarity) }

\* the rows of the search query before SORT / LIMIT: the tenant filter is part of
\* the query only when tenantId is truthy
Candidates(queryVec, tenantId) ==
  { m \in Rows(queryVec) :
      /\ Truthy(tenantId) => m.query.tenant_id = tenantId
      /\ m.results /= None
      /\ AboveThreshold(m.similarity) }

\* findNearestQuery: SORT sim DESC LIMIT 1; the set of answers the store may give
\* (None when there is no row; any of the rows of greatest similarity otherwise)
findNearestQuery(queryVec, tenantId) ==
  LET rows == Candidates(queryVec, tenantId)
  IN IF rows = {} THEN {None}
     ELSE {Some(m) : m \in {x \in rows : \A y \in rows : SimGeq(x.similarity, y.similarity)}}

\* a touch that also restarts the age of the query
touchQueryRestartingAge(queryKey, t) ==
  { IF q._key = queryKey
    THEN [q EXCEPT !.last_hit_at = t, !.hit_count = q.hit_count + 1, !.created_at = t]
    ELSE q : q \in queries }

\* touchQuery as the store executes it, with last_hit_at = t
touchQuery(queryKey, t) ==
  { IF q._key = queryKey
    THEN [q EXCEPT !.last_hit_at = t, !.hit_count = q.hit_count + 1]
    ELSE q : q \in queries }

\* the update that stores the items it is given, all of them
updateResultsUntruncated(queryKey, items, intent, e, t) ==
  { IF r.query_id = queryKey
    THEN [r EXCEPT !.items = items, !.model_rev = modelRev(e),
                   !.ttl_at = computeTtl(intent, defaultTtlMs(e), t),
                   !.freshened_at = Some(t)]
    ELSE r : r \in results }

\* updateResultsWithIntent as the store executes it, issued at instant t
updateResultsWithIntent(queryKey, items, intent, e, t) ==
  { IF r.query_id = queryKey
    THEN [r EXCEPT !.items = Slice(items, topKCached(e)), !.model_rev = modelRev(e),
                   !.ttl_at = computeTtl(intent, defaultTtlMs(e), t),
                   !.freshened_at = Some(t)]
    ELSE r : r \in results }

\* the query document with a hit counter that starts at 0
QueryDocUnhit(queryKey, text, tenantId, t) ==
  [_key |-> queryKey, q_text_norm |-> normalizeText(text), q_vec |-> embed(normalizeText(text)),
   intent |-> extractIntent(text), created_at |-> t, last_hit_at |-> t, hit_count |-> 0,
   tenant_id |-> IF Truthy(tenantId) THEN tenantId ELSE Undefined]

\* the query document store() builds
QueryDoc(queryKey, text, tenantId, t) ==
  [_key |-> queryKey, q_text_norm |-> normalizeText(text), q_vec |-> embed(normalizeText(text)),
   intent |-> extractIntent(text), created_at |-> t, last_hit_at |-> t, hit_count |-> 1,
   tenant_id |-> IF Truthy(tenantId) THEN tenantId ELSE Undefined]

\* the results document store() builds
ResultsDoc(queryKey, items, e, ttlAt) ==
  [query_id |-> queryKey, items |-> Slice(items, topKCached(e)), model_rev |-> modelRev(e),
   ttl_at |-> ttlAt, freshened_at |-> None]

HitCountOf(key) == IF \E q \in queries : q._key = key
                   THEN (CHOOSE q \in queries : q._key = key).hit_count ELSE 0

(* ---------------- results returned to the caller ---------------- *)
\* the result of a hit with all the cached items
CacheResultUncut(e, m) ==
  [items |-> m.results[1].items, source |-> "semantic-cache",
   similarity |-> Some(m.similarity), query_id |-> m.query._key]

\* the result of a hit
CacheResult(e, m) ==
  [items |-> Slice(m.results[1].items, topKReturned(e)), source |-> "semantic-cache",
   similarity |-> Some(m.similarity), query_id |-> m.query._key]

FreshResult(e, items, key) ==
  [items |-> Slice(items, topKReturned(e)), source |-> "fresh",
   similarity |-> None, query_id |-> key]

\* history: the call of engine e ends with this result (or None) and this error (or "")
Ends(e, cl, result, error) ==
  returned' = Some([engine |-> e, call |-> cl, result |-> result, error |-> error])

(* ---------------- retrieve / retrieveWithBackgroundRefresh ---------------- *)
TaskRunning(e) == tasks[e].pc = "fetch"

\* history kept by the steps that end no call and follow no store
Quiet == returned' = None /\ fresh' = None

\* history: this call is the identical next call of the engine that has just stored
Follows(e, proto, tenantArg, text) ==
  /\ fresh /= None
  /\ proto = "retrieve"
  /\ fresh[1].engine = e /\ fresh[1].tenantArg = tenantArg /\ fresh[1].query = text

\* tenantId ?? this.config.tenantId, the other way round
ConfigFirstTenantId(e, tenantArg) ==
  IF configTenantId(e) /= Undefined THEN configTenantId(e) ELSE tenantArg

\* tenantId ?? this.config.tenantId
effectiveTenantId(e, tenantArg) ==
  IF tenantArg /= Undefined THEN tenantArg ELSE configTenantId(e)

\* ttl_at >= now instead of ttl_at > now
isNotExpiredInclusive(m, t) == m.results[1].ttl_at >= t

\* the freshness checks of retrieve
isModelMatch(e, m) == m.results[1].model_rev = modelRev(e)
isNotExpired(m, t) == m.results[1].ttl_at > t
\* ttlTime - now <= TTL_PRESETS.realtime instead of <
isApproachingExpiryInclusive(m, t) == m.results[1].ttl_at - t <= TTL_realtime
\* the checks of retrieveWithBackgroundRefresh
isExpired(m, t) == m.results[1].ttl_at <= t
isApproachingExpiry(m, t) == m.results[1].ttl_at - t < TTL_realtime

\* where retrieve goes once the lookup has answered
AfterLookupRetrieve(e, found, t) ==
  IF found /= None /\ found[1].results /= None
     /\ isModelMatch(e, found[1]) /\ isNotExpired(found[1], t)
  THEN "touch" ELSE "fetch"

\* where retrieveWithBackgroundRefresh goes once the lookup has answered
AfterLookupBackground(e, found, t) ==
  IF found /= None /\ found[1].results /= None
  THEN IF isExpired(found[1], t) THEN "fetchExpired" ELSE "touchBg"
  ELSE "fetch"

\* whether the non-expired path will dispatch a refresh
NeedsRefresh(e, found, t) ==
  /\ found /= None /\ found[1].results /= None
  /\ ~isExpired(found[1], t)
  /\ ~isModelMatch(e, found[1]) \/ isApproachingExpiry(found[1], t)

\* history: a query without result that the lookup's other filters let through
OrphanInReach(queryVec, tenantId) ==
  \E q \in queries :
    /\ ResultsOf(q._key) = {}
    /\ Truthy(tenantId) => q.tenant_id = tenantId
    /\ AboveThreshold(COSINE_SIMILARITY(q.q_vec, queryVec))

\* embed, findNearestQuery and the classification of its answer by the handler
Classify(e, proto, tenantArg, text) ==
  /\ \E found \in findNearestQuery(embed(normalizeText(text)), effectiveTenantId(e, tenantArg)) :
       calls' = [calls EXCEPT ![e] =
         [IdleCall EXCEPT
            !.proto = proto, !.tenantArg = tenantArg, !.query = text,
            !.cached = found, !.at = now,
            !.refresh = (proto = "retrieveWithBackgroundRefresh" /\ NeedsRefresh(e, found, now)),
            !.follow = Follows(e, proto, tenantArg, text),
            !.sawOrphan = OrphanInReach(embed(normalizeText(text)),
                                        effectiveTenantId(e, tenantArg)),
            !.pc = IF proto = "retrieve" THEN AfterLookupRetrieve(e, found, now)
                   ELSE AfterLookupBackground(e, found, now)]]
  /\ returned' = None
  /\ fresh' = IF Follows(e, proto, tenantArg, text) THEN fresh ELSE None
  /\ UNCHANGED <<now, queries, results, nextKey, tasks, clearPc, world, simCall, ttlCall>>

\* the call is made (normalize, embed, extract the intent), findNearestQuery answers and
\* the handler classifies the answer.  Calls are made one after the other, and an engine
\* whose refresh is still running makes no call that could dispatch a second one.
Lookup(e, proto, tenantArg, text) ==
  /\ \A x \in Engines : calls[x].pc = "idle"
  /\ proto = "retrieveWithBackgroundRefresh" => ~TaskRunning(e)
  /\ Classify(e, proto, tenantArg, text)

\* a call is made while the calls of other callers are in flight
LookupOverlapping(e, proto, tenantArg, text) ==
  /\ calls[e].pc = "idle"
  /\ proto = "retrieveWithBackgroundRefresh" => ~TaskRunning(e)
  /\ Classify(e, proto, tenantArg, text)

\* a failed lookup swallowed as "no match"
LookupFailAsMiss(e) ==
  /\ \A x \in Engines : calls[x].pc = "idle"
  /\ \E proto \in ProtocolsIn(world), text \in QueriesIn(world) :
       calls' = [calls EXCEPT ![e] =
         [IdleCall EXCEPT !.pc = "fetch", !.proto = proto, !.query = text, !.at = now,
                          !.error = "store:lookup"]]
  /\ Quiet
  /\ UNCHANGED <<now, queries, results, nextKey, tasks, clearPc, world, simCall, ttlCall>>

\* a call is made and its lookup fails: the call fails with the store's error,
\* whatever its arguments
LookupFail(e) ==
  /\ \A x \in Engines : calls[x].pc = "idle"
  /\ Ends(e, IdleCall, None, "store:lookup")
  /\ fresh' = None
  /\ UNCHANGED <<now, queries, results, nextKey, calls, tasks, clearPc, world, simCall, ttlCall>>

\* hit of retrieve that returns the cached items while touchQuery has not run
TouchNotAwaited(e) ==
  /\ calls[e].pc = "touch"
  /\ calls' = [calls EXCEPT ![e] = IdleCall]
  /\ Ends(e, calls[e], Some(CacheResult(e, calls[e].cached[1])), "")
  /\ fresh' = None
  /\ UNCHANGED <<now, queries, results, nextKey, tasks, clearPc, world, simCall, ttlCall>>

\* hit of retrieve: touchQuery completes, the cached items are returned
Touch(e) ==
  /\ calls[e].pc = "touch"
  /\ HitCountOf(calls[e].cached[1].query._key) < HitsIn(world)
  /\ queries' = touchQuery(calls[e].cached[1].query._key, calls[e].at)
  /\ calls' = [calls EXCEPT ![e] = IdleCall]
  /\ Ends(e, [calls[e] EXCEPT !.writes = @ + 1], Some(CacheResult(e, calls[e].cached[1])), "")
  /\ fresh' = None
  /\ UNCHANGED <<now, results, nextKey, tasks, clearPc, world, simCall, ttlCall>>

\* touchQuery fails: the call fails with the store's error
TouchFail(e) ==
  /\ calls[e].pc \in {"touch", "touchBg", "touchExpired"}
  /\ calls' = [calls EXCEPT ![e] = IdleCall]
  /\ Ends(e, calls[e], None, "store:touch")
  /\ fresh' = None
  /\ UNCHANGED <<now, queries, results, nextKey, tasks, clearPc, world, simCall, ttlCall>>

\* miss: the retrieval function answers, store() builds its documents and
\* queriesCol.save is executed
FetchSave(e, items) ==
  /\ calls[e].pc = "fetch"
  /\ nextKey <= KeysIn(world)
  /\ queries' = queries \cup
       {QueryDoc(nextKey, calls[e].query, effectiveTenantId(e, calls[e].tenantArg), now)}
  /\ calls' = [calls EXCEPT ![e] =
       [@ EXCEPT !.pc = "saveResult", !.fnCalls = @ + 1, !.writes = @ + 1,
                 !.freshItems = items, !.queryKey = nextKey,
                 !.ttlAt = computeTtl(extractIntent(calls[e].query), defaultTtlMs(e), now)]]
  /\ nextKey' = nextKey + 1
  /\ Quiet
  /\ UNCHANGED <<now, results, tasks, clearPc, world, simCall, ttlCall>>

\* the retrieval function fails after the hit counter of the match was touched
FetchFailTouched(e) ==
  /\ calls[e].pc \in {"fetch", "fetchExpired"}
  /\ queries' = IF calls[e].cached = None THEN queries
                ELSE touchQuery(calls[e].cached[1].query._key, calls[e].at)
  /\ calls' = [calls EXCEPT ![e] = IdleCall]
  /\ Ends(e, [calls[e] EXCEPT !.fnCalls = @ + 1,
                              !.writes = IF calls[e].cached = None THEN @ ELSE @ + 1],
          None, "retrieveFn")
  /\ fresh' = None
  /\ UNCHANGED <<now, results, nextKey, tasks, clearPc, world, simCall, ttlCall>>

\* the retrieval function fails: its error is the call's error
FetchFail(e) ==
  /\ calls[e].pc \in {"fetch", "fetchExpired"}
  /\ calls' = [calls EXCEPT ![e] = IdleCall]
  /\ Ends(e, [calls[e] EXCEPT !.fnCalls = @ + 1], None, "retrieveFn")
  /\ fresh' = None
  /\ UNCHANGED <<now, queries, results, nextKey, tasks, clearPc, world, simCall, ttlCall>>

\* the retrieval function answers and queriesCol.save fails: the call fails with the
\* store's error
SaveQueryFail(e) ==
  /\ calls[e].pc = "fetch"
  /\ calls' = [calls EXCEPT ![e] = IdleCall]
  /\ Ends(e, [calls[e] EXCEPT !.fnCalls = @ + 1], None, "store:saveQuery")
  /\ fresh' = None
  /\ UNCHANGED <<now, queries, results, nextKey, tasks, clearPc, world, simCall, ttlCall>>

\* the result write that also removes the result of the stale match
SaveResultReplacesStale(e) ==
  /\ calls[e].pc = "saveResult"
  /\ results' = { r \in results : calls[e].cached = None
                                    \/ r.query_id /= calls[e].cached[1].query._key }
       \cup {ResultsDoc(calls[e].queryKey, calls[e].freshItems, e, calls[e].ttlAt)}
  /\ calls' = [calls EXCEPT ![e] = IdleCall]
  /\ Ends(e, [calls[e] EXCEPT !.writes = @ + 1],
          Some(FreshResult(e, calls[e].freshItems, calls[e].queryKey)), "")
  /\ fresh' = IF calls[e].proto = "retrieve"
              THEN Some([engine |-> e, tenantArg |-> calls[e].tenantArg,
                         query |-> calls[e].query, key |-> calls[e].queryKey,
                         items |-> Slice(calls[e].freshItems, topKReturned(e))])
              ELSE None
  /\ UNCHANGED <<now, queries, nextKey, tasks, clearPc, world, simCall, ttlCall>>

\* the result write that files the new result under the key of the stale match
SaveResultUnderMatchedKey(e) ==
  /\ calls[e].pc = "saveResult"
  /\ results' = results \cup
       {ResultsDoc(IF calls[e].cached = None THEN calls[e].queryKey
                   ELSE calls[e].cached[1].query._key,
                   calls[e].freshItems, e, calls[e].ttlAt)}
  /\ calls' = [calls EXCEPT ![e] = IdleCall]
  /\ Ends(e, [calls[e] EXCEPT !.writes = @ + 1],
          Some(FreshResult(e, calls[e].freshItems, calls[e].queryKey)), "")
  /\ fresh' = IF calls[e].proto = "retrieve"
              THEN Some([engine |-> e, tenantArg |-> calls[e].tenantArg,
                         query |-> calls[e].query, key |-> calls[e].queryKey,
                         items |-> Slice(calls[e].freshItems, topKReturned(e))])
              ELSE None
  /\ UNCHANGED <<now, queries, nextKey, tasks, clearPc, world, simCall, ttlCall>>

\* the result write into a collection that keeps one result
SaveResultSingleSlot(e) ==
  /\ calls[e].pc = "saveResult"
  /\ results' = {ResultsDoc(calls[e].queryKey, calls[e].freshItems, e, calls[e].ttlAt)}
  /\ calls' = [calls EXCEPT ![e] = IdleCall]
  /\ Ends(e, [calls[e] EXCEPT !.writes = @ + 1],
          Some(FreshResult(e, calls[e].freshItems, calls[e].queryKey)), "")
  /\ fresh' = IF calls[e].proto = "retrieve"
              THEN Some([engine |-> e, tenantArg |-> calls[e].tenantArg,
                         query |-> calls[e].query, key |-> calls[e].queryKey,
                         items |-> Slice(calls[e].freshItems, topKReturned(e))])
              ELSE None
  /\ UNCHANGED <<now, queries, nextKey, tasks, clearPc, world, simCall, ttlCall>>

\* store(): resultsCol.save is executed, then the fresh items are returned
SaveResult(e) ==
  /\ calls[e].pc = "saveResult"
  /\ results' = results \cup
       {ResultsDoc(calls[e].queryKey, calls[e].freshItems, e, calls[e].ttlAt)}
  /\ calls' = [calls EXCEPT ![e] = IdleCall]
  /\ Ends(e, [calls[e] EXCEPT !.writes = @ + 1],
          Some(FreshResult(e, calls[e].freshItems, calls[e].queryKey)), "")
  /\ fresh' = IF calls[e].proto = "retrieve"
              THEN Some([engine |-> e, tenantArg |-> calls[e].tenantArg,
                         query |-> calls[e].query, key |-> calls[e].queryKey,
                         items |-> Slice(calls[e].freshItems, topKReturned(e))])
              ELSE None
  /\ UNCHANGED <<now, queries, nextKey, tasks, clearPc, world, simCall, ttlCall>>

\* a failed result write swallowed: the fresh items are returned all the same
SaveResultFailSwallowed(e) ==
  /\ calls[e].pc = "saveResult"
  /\ calls' = [calls EXCEPT ![e] = IdleCall]
  /\ Ends(e, calls[e], Some(FreshResult(e, calls[e].freshItems, calls[e].queryKey)),
          "store:saveResult")
  /\ fresh' = None
  /\ UNCHANGED <<now, queries, results, nextKey, tasks, clearPc, world, simCall, ttlCall>>

\* resultsCol.save fails after the query was written: the call fails with the store's
\* error and the query stays without result
SaveResultFail(e) ==
  /\ calls[e].pc = "saveResult"
  /\ calls' = [calls EXCEPT ![e] = IdleCall]
  /\ Ends(e, calls[e], None, "store:saveResult")
  /\ fresh' = None
  /\ UNCHANGED <<now, queries, results, nextKey, tasks, clearPc, world, simCall, ttlCall>>

\* the expired path with the TTL recomputed from the new query's intent
FetchUpdateNewIntent(e, items) ==
  /\ calls[e].pc = "fetchExpired"
  /\ results' = updateResultsWithIntent(calls[e].cached[1].query._key, items,
                                        extractIntent(calls[e].query), e, now)
  /\ calls' = [calls EXCEPT ![e] =
       [@ EXCEPT !.pc = "touchExpired", !.fnCalls = @ + 1, !.writes = @ + 1,
                 !.freshItems = items, !.queryKey = calls[e].cached[1].query._key,
                 !.at = now,
                 !.matched = Cardinality(ResultsOf(calls[e].cached[1].query._key))]]
  /\ Quiet
  /\ UNCHANGED <<now, queries, nextKey, tasks, clearPc, world, simCall, ttlCall>>

\* expired match of retrieveWithBackgroundRefresh: the retrieval function answers and
\* the matched entry's result is updated in place with the matched query's intent;
\* touchQuery is issued
FetchUpdate(e, items) ==
  /\ calls[e].pc = "fetchExpired"
  /\ results' = updateResultsWithIntent(calls[e].cached[1].query._key, items,
                                        calls[e].cached[1].query.intent, e, now)
  /\ calls' = [calls EXCEPT ![e] =
       [@ EXCEPT !.pc = "touchExpired", !.fnCalls = @ + 1, !.writes = @ + 1,
                 !.freshItems = items, !.queryKey = calls[e].cached[1].query._key,
                 !.at = now,
                 !.matched = Cardinality(ResultsOf(calls[e].cached[1].query._key))]]
  /\ Quiet
  /\ UNCHANGED <<now, queries, nextKey, tasks, clearPc, world, simCall, ttlCall>>

\* the retrieval function answers and the update fails: the call fails with the
\* store's error
UpdateExpiredFail(e) ==
  /\ calls[e].pc = "fetchExpired"
  /\ calls' = [calls EXCEPT ![e] = IdleCall]
  /\ Ends(e, [calls[e] EXCEPT !.fnCalls = @ + 1], None, "store:update")
  /\ fresh' = None
  /\ UNCHANGED <<now, queries, results, nextKey, tasks, clearPc, world, simCall, ttlCall>>

\* the expired path that dispatches a background refresh as well
TouchExpiredRefreshing(e) ==
  /\ calls[e].pc = "touchExpired"
  /\ HitCountOf(calls[e].queryKey) < HitsIn(world)
  /\ queries' = touchQuery(calls[e].queryKey, calls[e].at)
  /\ calls' = [calls EXCEPT ![e] = IdleCall]
  /\ Ends(e, [calls[e] EXCEPT !.writes = @ + 1],
          Some(FreshResult(e, calls[e].freshItems, calls[e].queryKey)), "")
  /\ fresh' = None
  /\ tasks' = [tasks EXCEPT ![e] = [pc |-> "fetch", queryKey |-> calls[e].queryKey,
                                    intent |-> Some(calls[e].cached[1].query.intent),
                                    later |-> FALSE]]
  /\ UNCHANGED <<now, results, nextKey, clearPc, world, simCall, ttlCall>>

\* expired match: touchQuery completes, the fresh items are returned under the matched key
TouchExpired(e) ==
  /\ calls[e].pc = "touchExpired"
  /\ HitCountOf(calls[e].queryKey) < HitsIn(world)
  /\ queries' = touchQuery(calls[e].queryKey, calls[e].at)
  /\ calls' = [calls EXCEPT ![e] = IdleCall]
  /\ Ends(e, [calls[e] EXCEPT !.writes = @ + 1],
          Some(FreshResult(e, calls[e].freshItems, calls[e].queryKey)), "")
  /\ fresh' = None
  /\ UNCHANGED <<now, results, nextKey, tasks, clearPc, world, simCall, ttlCall>>

\* the dispatch that hands the task the intent of the call's own query
DispatchNewIntent(e) ==
  [x \in Engines |->
     IF x = e
     THEN [pc |-> "fetch", queryKey |-> calls[e].cached[1].query._key,
           intent |-> Some(extractIntent(calls[e].query)),
           later |-> \E y \in Engines \ {e} :
                       /\ tasks[y].pc = "fetch"
                       /\ tasks[y].queryKey = calls[e].cached[1].query._key]
     ELSE [tasks[x] EXCEPT !.later = FALSE]]

\* backgroundRefresh is called without await: the task starts, its retrieval pending;
\* the tasks after the dispatch
Dispatch(e) ==
  [x \in Engines |->
     IF x = e
     THEN [pc |-> "fetch", queryKey |-> calls[e].cached[1].query._key,
           intent |-> Some(calls[e].cached[1].query.intent),
           later |-> \E y \in Engines \ {e} :
                       /\ tasks[y].pc = "fetch"
                       /\ tasks[y].queryKey = calls[e].cached[1].query._key]
     ELSE [tasks[x] EXCEPT !.later = FALSE]]

\* non-expired match with the refresh awaited: the caller waits for the task
TouchBgAwaiting(e) ==
  /\ calls[e].pc = "touchBg"
  /\ HitCountOf(calls[e].cached[1].query._key) < HitsIn(world)
  /\ queries' = touchQuery(calls[e].cached[1].query._key, calls[e].at)
  /\ tasks' = IF calls[e].refresh THEN Dispatch(e) ELSE tasks
  /\ calls' = [calls EXCEPT ![e] =
       IF calls[e].refresh THEN [@ EXCEPT !.pc = "awaitRefresh", !.writes = @ + 1]
       ELSE IdleCall]
  /\ IF calls[e].refresh THEN returned' = None
     ELSE Ends(e, [calls[e] EXCEPT !.writes = @ + 1],
               Some(CacheResult(e, calls[e].cached[1])), "")
  /\ fresh' = None
  /\ UNCHANGED <<now, results, nextKey, clearPc, world, simCall, ttlCall>>

\* non-expired match: touchQuery completes, the refresh is dispatched if needed and the
\* cached items are returned
TouchBg(e) ==
  /\ calls[e].pc = "touchBg"
  /\ HitCountOf(calls[e].cached[1].query._key) < HitsIn(world)
  /\ queries' = touchQuery(calls[e].cached[1].query._key, calls[e].at)
  /\ tasks' = IF calls[e].refresh THEN Dispatch(e) ELSE tasks
  /\ calls' = [calls EXCEPT ![e] = IdleCall]
  /\ Ends(e, [calls[e] EXCEPT !.writes = @ + 1], Some(CacheResult(e, calls[e].cached[1])), "")
  /\ fresh' = None
  /\ UNCHANGED <<now, results, nextKey, clearPc, world, simCall, ttlCall>>

(* ---------------- backgroundRefresh ---------------- *)
\* the task's retrieval function answers and its update is executed by the store
RefreshOk(e, items) ==
  /\ tasks[e].pc = "fetch"
  /\ results' = updateResultsWithIntent(tasks[e].queryKey, items, tasks[e].intent[1], e, now)
  /\ tasks' = [tasks EXCEPT ![e] = [@ EXCEPT !.pc = "done", !.intent = None]]
  /\ Quiet
  /\ UNCHANGED <<now, queries, nextKey, calls, clearPc, world, simCall, ttlCall>>

\* a failing update that has removed the result it was to change
RefreshFailDropsResult(e) ==
  /\ tasks[e].pc = "fetch"
  /\ results' = {r \in results : r.query_id /= tasks[e].queryKey}
  /\ tasks' = [tasks EXCEPT ![e] = [IdleTask EXCEPT !.pc = "caught"]]
  /\ Quiet
  /\ UNCHANGED <<now, queries, nextKey, calls, clearPc, world, simCall, ttlCall>>

\* the task's retrieval function or its update fails: caught and logged
RefreshFail(e) ==
  /\ tasks[e].pc = "fetch"
  /\ tasks' = [tasks EXCEPT ![e] = [IdleTask EXCEPT !.pc = "caught"]]
  /\ Quiet
  /\ UNCHANGED <<now, queries, results, nextKey, calls, clearPc, world, simCall, ttlCall>>

(* ---------------- invalidation, clear, expiry, time ---------------- *)
\* the invalidation that removes the owning queries with the results
invalidateCascading(e, rev) ==
  /\ results' = {r \in results : r.model_rev /= rev}
  /\ queries' = {q \in queries :
                   \A r \in results : r.query_id = q._key => r.model_rev /= rev}
  /\ Ends(e, [IdleCall EXCEPT !.proto = "invalidateByModelRev"],
          Some([source |-> "invalidate", rev |-> rev,
                removed |-> Cardinality({r \in results : r.model_rev = rev})]), "")
  /\ fresh' = None
  /\ UNCHANGED <<now, nextKey, calls, tasks, clearPc, world, simCall, ttlCall>>

\* invalidateByModelRev(rev): one query removes the results of that revision and
\* RETURN OLD._key gives one row for each of them
invalidateByModelRev(e, rev) ==
  /\ results' = {r \in results : r.model_rev /= rev}
  /\ Ends(e, [IdleCall EXCEPT !.proto = "invalidateByModelRev"],
          Some([source |-> "invalidate", rev |-> rev,
                removed |-> Cardinality({r \in results : r.model_rev = rev})]), "")
  /\ fresh' = None
  /\ UNCHANGED <<now, queries, nextKey, calls, tasks, clearPc, world, simCall, ttlCall>>

\* evictOldEntries: the keys of LET oldQueries, with cutoff = Date.now() - maxAgeMs
oldQueries(maxAgeMs) == { q._key : q \in {x \in queries : x.last_hit_at < now - maxAgeMs} }

\* evictOldEntries: the results the inner loop enumerates
oldResults(maxAgeMs) == { r \in results : r.query_id \in oldQueries(maxAgeMs) }

\* evictOldEntries(db, maxAgeMs): one query.  The loop over the results is nested in
\* the loop over oldQueries and RETURN LENGTH(oldQueries) is inside both, so the query
\* gives one row for each pair of an old key and an old result; cursor.next() is the
\* first row, and 0 is answered when there is none.
evictOldEntries(e, maxAgeMs) ==
  /\ queries' = { q \in queries : q._key \notin oldQueries(maxAgeMs) }
  /\ results' = results \ oldResults(maxAgeMs)
  /\ Ends(e, [IdleCall EXCEPT !.proto = "evictOldEntries",
                              !.writes = Cardinality(oldQueries(maxAgeMs))
                                           + Cardinality(oldResults(maxAgeMs))],
          Some([source |-> "evict", maxAgeMs |-> maxAgeMs,
                removed |-> IF oldResults(maxAgeMs) = {} THEN 0
                            ELSE Cardinality(oldQueries(maxAgeMs))]), "")
  /\ fresh' = None
  /\ UNCHANGED <<now, nextKey, calls, tasks, clearPc, world, simCall, ttlCall>>

\* evictOldEntries with several old keys: the nested loop enumerates every old result
\* once for each old key, and the store may reject the repeated REMOVE of a document;
\* the query then fails and changes nothing
evictOldEntriesFail(e, maxAgeMs) ==
  /\ Cardinality(oldQueries(maxAgeMs)) >= 2
  /\ oldResults(maxAgeMs) /= {}
  /\ Ends(e, [IdleCall EXCEPT !.proto = "evictOldEntries"], None, "store:evict")
  /\ fresh' = None
  /\ UNCHANGED <<now, queries, results, nextKey, calls, tasks, clearPc, world, simCall, ttlCall>>

\* SUM(q.hit_count) over a set of query documents
RECURSIVE SumHits(_)
SumHits(qs) ==
  IF qs = {} THEN 0
  ELSE LET q == CHOOSE x \in qs : TRUE IN q.hit_count + SumHits(qs \ {q})

\* the statistics with hitRate = (hits - total) / total
getStatsPerQuery ==
  LET total == Cardinality(queries)
      hits == SumHits(queries)
  IN [source |-> "stats", totalQueries |-> total, totalHits |-> hits,
      hitRate |-> IF total > 0 /\ hits > 0
                  THEN [num |-> hits - total, den |-> total]
                  ELSE [num |-> 0, den |-> 1]]

\* the aggregation of getStats over the stored queries; hitRate is kept as the
\* fraction num / den
getStats ==
  LET total == Cardinality(queries)
      hits == SumHits(queries)
  IN [source |-> "stats", totalQueries |-> total, totalHits |-> hits,
      hitRate |-> IF total > 0 /\ hits > 0
                  THEN [num |-> hits - total, den |-> hits]
                  ELSE [num |-> 0, den |-> 1]]

\* getStats(): one query, answered to the caller
GetStats(e) ==
  /\ \A x \in Engines : calls[x].pc = "idle"
  /\ Ends(e, [IdleCall EXCEPT !.proto = "getStats"], Some(getStats), "")
  /\ fresh' = None
  /\ UNCHANGED <<now, queries, results, nextKey, calls, tasks, clearPc, world, simCall, ttlCall>>

\* clear(): first query, all results removed
ClearResults ==
  /\ clearPc = "idle"
  /\ queries /= {} \/ results /= {}
  /\ results' = {}
  /\ clearPc' = "queries"
  /\ Quiet
  /\ UNCHANGED <<now, queries, nextKey, calls, tasks, world, simCall, ttlCall>>

\* a clear() that ends after its first query
ClearQueriesSkipped ==
  /\ clearPc = "queries"
  /\ clearPc' = "idle"
  /\ Quiet
  /\ UNCHANGED <<now, queries, results, nextKey, calls, tasks, world, simCall, ttlCall>>

\* clear(): second query, all queries removed
ClearQueries ==
  /\ clearPc = "queries"
  /\ queries' = {}
  /\ clearPc' = "idle"
  /\ Quiet
  /\ UNCHANGED <<now, results, nextKey, calls, tasks, world, simCall, ttlCall>>

\* the store's TTL index on ttl_at (expireAfter 0) removes an expired result
TtlExpire ==
  /\ \E r \in results :
       /\ r.ttl_at <= now
       /\ results' = results \ {r}
  /\ Quiet
  /\ UNCHANGED <<now, queries, nextKey, calls, tasks, clearPc, world, simCall, ttlCall>>

\* an hour passes
Tick ==
  /\ ClockRuns(world)
  /\ now < MaxNow
  /\ now' = now + 1
  /\ Quiet
  /\ UNCHANGED <<queries, results, nextKey, calls, tasks, clearPc, world, simCall, ttlCall>>

Next ==
  \/ \E e \in EnginesIn(world), proto \in ProtocolsIn(world),
        t \in TenantArgsIn(world), q \in QueriesIn(world) : Lookup(e, proto, t, q)
  \/ \E e \in EnginesIn(world) : LookupFail(e)
  \/ \E e \in Engines : Touch(e)
  \/ \E e \in Engines : TouchFail(e)
  \/ \E e \in Engines, items \in FreshOutputsIn(world) : FetchSave(e, items)
  \/ \E e \in Engines : FetchFail(e)
  \/ \E e \in Engines : SaveQueryFail(e)
  \/ \E e \in Engines : SaveResult(e)
  \/ \E e \in Engines : SaveResultFail(e)
  \/ \E e \in Engines, items \in FreshOutputsIn(world) : FetchUpdate(e, items)
  \/ \E e \in Engines : UpdateExpiredFail(e)
  \/ \E e \in Engines : TouchExpired(e)
  \/ \E e \in Engines : TouchBg(e)
  \/ \E e \in Engines, items \in FreshOutputsIn(world) : RefreshOk(e, items)
  \/ \E e \in Engines : RefreshFail(e)
  \/ \E e \in EnginesIn(world) : GetStats(e)
  \/ \E e, x \in EnginesIn(world) : invalidateByModelRev(e, modelRev(x))
  \/ \E e \in EnginesIn(world), a \in MaxAgesIn(world) : evictOldEntries(e, a)
  \/ \E e \in EnginesIn(world), a \in MaxAgesIn(world) : evictOldEntriesFail(e, a)
  \/ ClearResults
  \/ ClearQueries
  \/ TtlExpire
  \/ Tick

Spec == Init /\ [][Next]_vars

(* ---------------- a store that always answers ---------------- *)
\* the steps in which the store answers the query a call is waiting for, with a
\* result or with an error
StoreAnswers(e) ==
  \/ Touch(e) \/ TouchBg(e) \/ TouchExpired(e) \/ TouchFail(e)
  \/ SaveResult(e) \/ SaveResultFail(e)

\* every awaited store query is answered in the end; nothing is assumed of the
\* retrieval function, which belongs to the caller and may never settle its promise
AnsweringStoreSpec ==
  Init /\ [][Next]_vars /\ \A e \in Engines : WF_vars(StoreAnswers(e))

(* ---------------- background refreshes that succeed ---------------- *)
RefreshInit ==
  /\ now = 0
  /\ queries = {}
  /\ results = {}
  /\ nextKey = 1
  /\ calls = [e \in Engines |-> IdleCall]
  /\ tasks = [e \in Engines |-> IdleTask]
  /\ clearPc = "idle"
  /\ world = "refreshing"
  /\ returned = None
  /\ fresh = None
  /\ simCall = NoSimCall
  /\ ttlCall = NoTtlCall

\* the calls, the sweeps and the refreshes of the population; the retrieval function
\* and the store answer every request of a call or a task without error
RefreshNext ==
  \/ \E e \in EnginesIn(world), proto \in ProtocolsIn(world),
        t \in TenantArgsIn(world), q \in QueriesIn(world) : Lookup(e, proto, t, q)
  \/ \E e \in Engines, items \in FreshOutputsIn(world) : FetchSave(e, items)
  \/ \E e \in Engines : SaveResult(e)
  \/ \E e \in Engines : TouchBg(e)
  \/ \E e \in Engines, items \in FreshOutputsIn(world) : RefreshOk(e, items)
  \/ \E e, x \in EnginesIn(world) : invalidateByModelRev(e, modelRev(x))
  \/ ClearResults
  \/ ClearQueries

\* a dispatched task runs to its end: the scheduler resumes it when its retrieval
\* function has answered, and the store executes the update it then issues
RefreshSpec ==
  RefreshInit /\ [][RefreshNext]_vars
    /\ \A e \in Engines : WF_vars(\E items \in FreshOutputs : RefreshOk(e, items))

(* ---------------- calls that overlap ---------------- *)
ConcurrentInit ==
  /\ now = 0
  /\ queries = {}
  /\ results = {}
  /\ nextKey = 1
  /\ calls = [e \in Engines |-> IdleCall]
  /\ tasks = [e \in Engines |-> IdleTask]
  /\ clearPc = "idle"
  /\ world = "concurrent"
  /\ returned = None
  /\ fresh = None
  /\ simCall = NoSimCall
  /\ ttlCall = NoTtlCall

\* retrieve calls of two callers, each started whatever the other is doing; the
\* retrieval function and the store answer every request without error, and nothing
\* is deleted
ConcurrentNext ==
  \/ \E e \in EnginesIn(world), proto \in ProtocolsIn(world),
        t \in TenantArgsIn(world), q \in QueriesIn(world) : LookupOverlapping(e, proto, t, q)
  \/ \E e \in Engines, items \in FreshOutputsIn(world) : FetchSave(e, items)
  \/ \E e \in Engines : SaveResult(e)
  \/ \E e \in Engines : Touch(e)

ConcurrentSpec == ConcurrentInit /\ [][ConcurrentNext]_vars

(* ---------------- calls and nothing that deletes ---------------- *)
CountingInit ==
  /\ now = 0
  /\ queries = {}
  /\ results = {}
  /\ nextKey = 1
  /\ calls = [e \in Engines |-> IdleCall]
  /\ tasks = [e \in Engines |-> IdleTask]
  /\ clearPc = "idle"
  /\ world = "time"
  /\ returned = None
  /\ fresh = None
  /\ simCall = NoSimCall
  /\ ttlCall = NoTtlCall

\* retrieve, retrieveWithBackgroundRefresh and getStats calls while time passes: no
\* clear, no eviction, no invalidation, no removal by the TTL index, and a store and a
\* retrieval function that answer without error
CountingNext ==
  \/ \E e \in EnginesIn(world), proto \in ProtocolsIn(world),
        t \in TenantArgsIn(world), q \in QueriesIn(world) : Lookup(e, proto, t, q)
  \/ \E e \in Engines : Touch(e)
  \/ \E e \in Engines, items \in FreshOutputsIn(world) : FetchSave(e, items)
  \/ \E e \in Engines : SaveResult(e)
  \/ \E e \in Engines, items \in FreshOutputsIn(world) : FetchUpdate(e, items)
  \/ \E e \in Engines : TouchExpired(e)
  \/ \E e \in Engines : TouchBg(e)
  \/ \E e \in Engines, items \in FreshOutputsIn(world) : RefreshOk(e, items)
  \/ \E e \in EnginesIn(world) : GetStats(e)
  \/ Tick

CountingSpec == CountingInit /\ [][CountingNext]_vars

(* ---------------- computeTtl on its own ---------------- *)
\* a handler hands an intent and a baseTtlMs to computeTtl at some instant
TtlInit ==
  /\ now \in 0..MaxNow
  /\ queries = {}
  /\ results = {}
  /\ nextKey = 1
  /\ calls = [e \in Engines |-> IdleCall]
  /\ tasks = [e \in Engines |-> IdleTask]
  /\ clearPc = "idle"
  /\ world = "ttls"
  /\ returned = None
  /\ fresh = None
  /\ simCall = NoSimCall
  /\ ttlCall \in { [pc |-> "called", intent |-> i, baseTtlMs |-> b, out |-> None] :
                     i \in Intents, b \in BaseTtls }

\* the function returns
CallComputeTtl ==
  /\ ttlCall.pc = "called"
  /\ ttlCall' = [ttlCall EXCEPT
                   !.pc = "done",
                   !.out = Some(computeTtl(ttlCall.intent, ttlCall.baseTtlMs, now))]
  /\ UNCHANGED <<now, queries, results, nextKey, calls, tasks, clearPc, world, returned,
                 fresh, simCall>>

TtlNext == CallComputeTtl

TtlSpec == TtlInit /\ [][TtlNext]_vars

(* ---------------- cosineSimilarity on its own ---------------- *)
\* a caller hands two vectors to cosineSimilarity; the cache is not involved
VecInit ==
  /\ now = 0
  /\ queries = {}
  /\ results = {}
  /\ nextKey = 1
  /\ calls = [e \in Engines |-> IdleCall]
  /\ tasks = [e \in Engines |-> IdleTask]
  /\ clearPc = "idle"
  /\ world = "vectors"
  /\ returned = None
  /\ fresh = None
  /\ simCall \in { [pc |-> "called", a |-> a, b |-> b, out |-> None] : a, b \in Vectors }
  /\ ttlCall = NoTtlCall

\* the function returns or throws
CallCosineSimilarity ==
  /\ simCall.pc = "called"
  /\ simCall' = [simCall EXCEPT !.pc = "done",
                                !.out = Some(cosineSimilarity(simCall.a, simCall.b))]
  /\ UNCHANGED <<now, queries, results, nextKey, calls, tasks, clearPc, world, returned,
                 fresh, ttlCall>>

VecNext == CallCosineSimilarity

VecSpec == VecInit /\ [][VecNext]_vars

(* ---------------- what the calls observed ---------------- *)
\* every call in flight or just ended, with its engine
Observed ==
  { <<e, calls[e]>> : e \in {x \in Engines : calls[x].pc /= "idle"} }
    \cup (IF returned = None THEN {} ELSE { <<returned[1].engine, returned[1].call>> })

HitReturned ==
  /\ returned /= None
  /\ returned[1].result /= None
  /\ returned[1].result[1].source = "semantic-cache"

FreshReturned ==
  /\ returned /= None
  /\ returned[1].result /= None
  /\ returned[1].result[1].source = "fresh"

Failed(error) == returned /= None /\ returned[1].error = error

\* the step in which engine e's lookup answers
LookupAnswers(e) == calls[e].pc = "idle" /\ calls'[e].pc /= "idle"

(* ---------------- C1 ---------------- *)
\* C1: retrieve answers with source "semantic-cache" only for a match whose result carries
\* the engine's model revision and a ttl_at strictly after the instant of the check; a
\* match whose ttl_at is that instant or earlier is never answered as a hit.
C1_RetrieveHitOnlyWhenValid ==
  (HitReturned /\ returned[1].call.proto = "retrieve") =>
    LET c == returned[1].call IN
      /\ c.cached /= None /\ c.cached[1].results /= None
      /\ c.cached[1].results[1].model_rev = modelRev(returned[1].engine)
      /\ c.cached[1].results[1].ttl_at > c.at
      /\ returned[1].result[1].query_id = c.cached[1].query._key

\* retrieve has answered a hit on a match one hour before its expiry
C1_Witness ==
  /\ HitReturned
  /\ returned[1].call.proto = "retrieve"
  /\ returned[1].call.cached[1].results[1].ttl_at = returned[1].call.at + 1
  /\ returned[1].call.at > 0

(* ---------------- C2 ---------------- *)
\* C2: in neither protocol are items answered with source "semantic-cache" taken from a
\* result whose model revision differs from the engine's.
C2_NoHitAcrossRevisions ==
  HitReturned =>
    returned[1].call.cached[1].results[1].model_rev = modelRev(returned[1].engine)

\* retrieveWithBackgroundRefresh has answered the items of an unexpired result of
\* another model revision as "semantic-cache"
C2_StaleRevisionServed ==
  /\ HitReturned
  /\ returned[1].call.proto = "retrieveWithBackgroundRefresh"
  /\ returned[1].call.cached[1].results[1].model_rev /= modelRev(returned[1].engine)
  /\ returned[1].call.cached[1].results[1].ttl_at > returned[1].call.at

(* ---------------- C3 ---------------- *)
\* the call of engine e directly follows the storing retrieve of the same engine, tenant
\* and text, and the entry stored is still there, query and result, unexpired
RepeatsStore(e) ==
  /\ calls[e].pc /= "idle"
  /\ calls[e].follow
  /\ fresh /= None
  /\ \E q \in queries : q._key = fresh[1].key
  /\ \E r \in results : r.query_id = fresh[1].key /\ r.ttl_at > calls[e].at

\* C3: the identical retrieve that directly follows a storing retrieve of the same engine
\* and tenant, the stored entry being unexpired, is a hit with similarity 1.
C3_RepeatIsHit ==
  \A e \in Engines :
    RepeatsStore(e) =>
      /\ calls[e].pc = "touch"
      /\ SimIsOne(calls[e].cached[1].similarity)

\* the repeated call found an older entry of the same text instead, one that is not
\* valid, and goes on to the retrieval function and a further store
C3_RepeatMisses ==
  \E e \in Engines :
    /\ RepeatsStore(e)
    /\ calls[e].pc = "fetch"
    /\ calls[e].cached /= None
    /\ calls[e].cached[1].query._key /= fresh[1].key
    /\ SimIsOne(calls[e].cached[1].similarity)

(* ---------------- C4 ---------------- *)
\* C4: a lookup scoped to tenant t, where t is the call's tenantId if one is given and
\* the engine's configured tenantId otherwise, only ever finds an entry whose tenant_id
\* is t.
C4_TenantScopedLookup ==
  \A o \in Observed :
    LET t == IF o[2].tenantArg /= Undefined THEN o[2].tenantArg ELSE configTenantId(o[1]) IN
      (Truthy(t) /\ o[2].cached /= None) => o[2].cached[1].query.tenant_id = t

\* the engine configured with tenant "a" is called with tenant "b" and finds b's entry
\* while an entry of tenant "a" is stored
C4_Witness ==
  \E o \in Observed :
    /\ configTenantId(o[1]) = "a"
    /\ o[2].tenantArg = "b"
    /\ o[2].cached /= None
    /\ o[2].cached[1].query.tenant_id = "b"
    /\ \E q \in queries : q.tenant_id = "a" /\ ResultsOf(q._key) /= {}

(* ---------------- C5 ---------------- *)
\* C5: a lookup without any tenant (no tenantId argument, no configured tenantId) never
\* finds an entry that carries a tenant_id, and a tenant-scoped lookup never finds an
\* entry without one.
C5_SeparatePartitions ==
  \A o \in Observed :
    o[2].cached /= None =>
      LET t == IF o[2].tenantArg /= Undefined THEN o[2].tenantArg ELSE configTenantId(o[1]) IN
        /\ (o[2].tenantArg = Undefined /\ configTenantId(o[1]) = Undefined)
             => o[2].cached[1].query.tenant_id = Undefined
        /\ Truthy(t) => o[2].cached[1].query.tenant_id /= Undefined

\* a lookup without any tenant has found the entry of tenant "b"
C5_TenantEntryLeaks ==
  \E o \in Observed :
    /\ o[2].tenantArg = Undefined
    /\ configTenantId(o[1]) = Undefined
    /\ o[2].cached /= None
    /\ o[2].cached[1].query.tenant_id = "b"

(* ---------------- C6 ---------------- *)
\* C6: whenever a lookup answers with a match, the matched query has a result in the
\* store at that moment, and no hit is ever answered on a query found without result.
C6_NoOrphanMatch ==
  [][\A e \in Engines :
       (LookupAnswers(e) /\ calls'[e].cached /= None) =>
         /\ ResultsOf(calls'[e].cached[1].query._key) /= {}
         /\ calls'[e].cached[1].results /= None]_vars

\* a lookup has answered while a query without result, similar enough and in its
\* tenant's reach, was stored
C6_Witness == \E e \in Engines : calls[e].pc /= "idle" /\ calls[e].sawOrphan

(* ---------------- C7 ---------------- *)
\* C7: a call whose lookup fails ends with the store's error and no result, without the
\* retrieval function having been invoked and without a write; no call goes on after a
\* failed lookup, and the step leaves queries and results as they were.
C7_LookupFailureFailsCall ==
  /\ [](/\ \A e \in Engines : calls[e].error = ""
        /\ Failed("store:lookup") =>
             /\ returned[1].result = None
             /\ returned[1].call.fnCalls = 0
             /\ returned[1].call.writes = 0)
  /\ [][(returned' /= None /\ returned'[1].error = "store:lookup")
          => UNCHANGED <<queries, results, nextKey, tasks>>]_vars

\* a lookup has failed over a cache that holds an entry
C7_Witness == Failed("store:lookup") /\ queries /= {} /\ results /= {}

(* ---------------- C8 ---------------- *)
\* C8: a call whose retrieval function fails on the miss path or on the expired path ends
\* with that error and no result, and the step leaves queries, results and hit counters
\* as they were; the call has written nothing before.
C8_RetrievalFailureLeavesCache ==
  /\ [](Failed("retrieveFn") =>
          /\ returned[1].result = None
          /\ returned[1].call.writes = 0
          /\ returned[1].call.pc \in {"fetch", "fetchExpired"})
  /\ [][(returned' /= None /\ returned'[1].error = "retrieveFn")
          => UNCHANGED <<queries, results, nextKey>>]_vars

\* the retrieval function has failed on the expired path of retrieveWithBackgroundRefresh
C8_Witness ==
  /\ Failed("retrieveFn")
  /\ returned[1].call.pc = "fetchExpired"
  /\ returned[1].call.cached /= None

(* ---------------- C9 ---------------- *)
\* C9: a call whose store write fails after the retrieval function answered ends with the
\* store's error and never with a result, and the query written before a failed result
\* write is found by no lookup.
C9_StoreFailureFailsCall ==
  /\ [](\A err \in {"store:saveQuery", "store:saveResult", "store:update"} :
          Failed(err) => returned[1].result = None /\ returned[1].call.fnCalls = 1)
  /\ [](FreshReturned => returned[1].error = "")
  /\ [][\A e \in Engines :
          (LookupAnswers(e) /\ calls'[e].cached /= None) =>
            \E r \in results : r.query_id = calls'[e].cached[1].query._key]_vars

\* the result write has failed and the query written before it is stored without result
C9_Witness ==
  /\ Failed("store:saveResult")
  /\ \E q \in queries : q._key = returned[1].call.queryKey /\ ResultsOf(q._key) = {}

(* ---------------- C10 ---------------- *)
\* C10: on a non-expired match retrieveWithBackgroundRefresh answers the cached items
\* without waiting for the refresh it dispatches: a call that decided to refresh is
\* either before its touchQuery or has answered "semantic-cache" with the task still
\* running; the end of a refresh, failed or not, changes no call and raises nothing.
C10_RefreshNeverBlocksOrFails ==
  /\ [](\A e \in Engines :
          (calls[e].pc /= "idle" /\ calls[e].refresh) => calls[e].pc = "touchBg")
  /\ []((returned /= None /\ returned[1].call.refresh /\ returned[1].error = "") =>
          /\ HitReturned
          /\ tasks[returned[1].engine].pc = "fetch")
  /\ [][\A e \in Engines :
          (tasks[e].pc = "fetch" /\ tasks'[e].pc /= "fetch") =>
            (returned' = None /\ UNCHANGED calls)]_vars

\* a dispatched refresh has failed and was caught after its caller was answered
C10_Witness ==
  \E e \in Engines : tasks[e].pc = "caught" /\ calls[e].pc = "idle" /\ returned = None

(* ---------------- C11 ---------------- *)
\* engine e's refresh was dispatched while engine x's refresh of the same entry was
\* running, and both have completed their update
BothRefreshed(e, x) ==
  /\ x /= e
  /\ tasks[e].pc = "done" /\ tasks[e].later
  /\ tasks[x].pc = "done" /\ tasks[x].queryKey = tasks[e].queryKey

\* C11: when two refreshes of one entry were in flight together and both have completed,
\* the entry holds what the refresh that started later wrote: its items and its revision.
C11_LaterRefreshWins ==
  \A e \in Engines, x \in Engines :
    BothRefreshed(e, x) =>
      \A r \in results :
        r.query_id = tasks[e].queryKey =>
          /\ r.model_rev = modelRev(e)
          /\ \E items \in FreshOutputsIn(world) : r.items = Slice(items, topKCached(e))

\* both refreshes have completed and the entry holds what the one that started first wrote
C11_OlderRefreshWins ==
  \E e \in Engines, x \in Engines :
    /\ BothRefreshed(e, x)
    /\ \E r \in results :
         /\ r.query_id = tasks[e].queryKey
         /\ r.model_rev = modelRev(x)
         /\ r.model_rev /= modelRev(e)
         /\ r.freshened_at /= None

(* ---------------- C12 ---------------- *)
\* the keys of the stored documents
QueryKeys(qs) == { q._key : q \in qs }
ResultOwners(rs) == { r.query_id : r \in rs }

C13_MissStoresNewPair ==
  /\ [][\A e \in Engines :
          (calls[e].pc = "fetch" /\ calls'[e].pc = "saveResult") =>
            LET k == calls'[e].queryKey IN
              /\ k \notin QueryKeys(queries) \cup ResultOwners(results)
              /\ calls[e].cached /= None => k /= calls[e].cached[1].query._key
              /\ calls'[e].fnCalls = 1
              /\ queries \subseteq queries'
              /\ Cardinality(queries') = Cardinality(queries) + 1
              /\ k \in QueryKeys(queries')
              /\ results' = results]_vars
  /\ [][\A e \in Engines :
          (/\ calls[e].pc = "saveResult" /\ calls'[e].pc = "idle"
           /\ returned' /= None /\ returned'[1].error = "") =>
            LET k == calls[e].queryKey IN
              /\ queries' = queries
              /\ k \notin ResultOwners(results)
              /\ results \subseteq results'
              /\ Cardinality(results') = Cardinality(results) + 1
              /\ k \in ResultOwners(results')
              /\ returned'[1].result /= None
              /\ returned'[1].result[1].source = "fresh"
              /\ returned'[1].result[1].query_id = k
              /\ calls[e].cached /= None => k /= calls[e].cached[1].query._key]_vars

\* retrieve has answered "fresh" with a new key after finding a stale match, and the
\* stale entry is stored as the lookup found it, beside the new one
C13_Witness ==
  /\ FreshReturned
  /\ returned[1].call.proto = "retrieve"
  /\ returned[1].call.cached /= None
  /\ LET m == returned[1].call.cached[1]
         k == returned[1].result[1].query_id IN
       /\ k /= m.query._key
       /\ \E q \in queries : q._key = k
       /\ \E q \in queries : q._key = m.query._key /\ q.intent = m.query.intent
       /\ \E r \in results :
            /\ r.query_id = m.query._key
            /\ r.items = m.results[1].items
            /\ r.model_rev = m.results[1].model_rev
            /\ r.ttl_at = m.results[1].ttl_at

(* ---------------- C14 ---------------- *)
\* the stored queries a lookup with tenant filter tid ranges over that own a result
Eligible(tid) ==
  { q \in queries : /\ Truthy(tid) => q.tenant_id = tid
                    /\ \E r \in results : r.query_id = q._key }

\* cos(a, b) >= ThrNum / ThrDen
ReachesThreshold(a, b) ==
  /\ Dot(a, b) >= 0
  /\ ThrDen * ThrDen * Dot(a, b) * Dot(a, b) >= ThrNum * ThrNum * Dot(a, a) * Dot(b, b)

\* cos(a, b) = ThrNum / ThrDen
AtThreshold(a, b) ==
  /\ Dot(a, b) >= 0
  /\ ThrDen * ThrDen * Dot(a, b) * Dot(a, b) = ThrNum * ThrNum * Dot(a, a) * Dot(b, b)

\* C14: a lookup answers none exactly when no eligible entry that it ranges over has a
\* similarity to the input vector of at least the threshold; otherwise it answers one of
\* those entries whose similarity is at least the threshold and at least that of every
\* other eligible entry.  Similarity equal to the threshold is enough.
C14_NearestAboveThreshold ==
  [][\A e \in Engines :
       LookupAnswers(e) =>
         LET vec == embed(normalizeText(calls'[e].query))
             el == Eligible(effectiveTenantId(e, calls'[e].tenantArg))
             reach == { q \in el : ReachesThreshold(q.q_vec, vec) }
         IN IF reach = {} THEN calls'[e].cached = None
            ELSE /\ calls'[e].cached /= None
                 /\ \E q \in reach :
                      /\ q._key = calls'[e].cached[1].query._key
                      /\ calls'[e].cached[1].similarity = COSINE_SIMILARITY(q.q_vec, vec)
                      /\ \A y \in el : SimGeq(COSINE_SIMILARITY(q.q_vec, vec),
                                              COSINE_SIMILARITY(y.q_vec, vec))]_vars

\* a lookup has answered an entry whose similarity is the threshold itself
C14_Witness ==
  \E o \in Observed :
    LET c == o[2]
        vec == embed(normalizeText(c.query)) IN
      /\ c.error = ""
      /\ c.cached /= None
      /\ \E q \in queries : /\ q._key = c.cached[1].query._key
                            /\ AtThreshold(q.q_vec, vec)

(* ---------------- C15 ---------------- *)
StatsReturned == returned /= None /\ returned[1].call.proto = "getStats"

\* C15: getStats answers the number of stored queries, the sum of their hit counts, and
\* as hitRate (totalHits - totalQueries) / totalHits when totalHits > 0 and 0 otherwise;
\* hitRate is at least 0 and less than 1.
C15_StatsOfStoredQueries ==
  StatsReturned =>
    LET s == returned[1].result[1] IN
      /\ s.totalQueries = Cardinality(queries)
      /\ s.totalHits = SumTo([k \in 1..KeysIn(world) |-> HitCountOf(k)], KeysIn(world))
      /\ s.hitRate.den > 0
      /\ IF s.totalHits > 0
         THEN s.hitRate.num * s.totalHits = (s.totalHits - s.totalQueries) * s.hitRate.den
         ELSE s.hitRate.num = 0
      /\ 0 <= s.hitRate.num
      /\ s.hitRate.num < s.hitRate.den

\* three entries are stored, one of them was hit twice, and getStats has answered
\* totalQueries = 3, totalHits = 5, hitRate = 2/5
C15_Witness ==
  /\ StatsReturned
  /\ Cardinality(queries) = 3
  /\ \E q \in queries : /\ q.hit_count = 3
                        /\ \A x \in queries \ {q} : x.hit_count = 1
  /\ returned[1].result[1].totalQueries = 3
  /\ returned[1].result[1].totalHits = 5
  /\ returned[1].result[1].hitRate.num * 5 = 2 * returned[1].result[1].hitRate.den

(* ---------------- C16 ---------------- *)
\* the durations of the rules that apply to an intent, baseTtlMs included
ApplicableTtls(intent, baseTtlMs) ==
  {baseTtlMs}
    \cup (IF intent.timebox /= Undefined THEN {TTL_dynamic} ELSE {})
    \cup (IF intent.facets \cap volatileFacets /= {} THEN {TTL_dynamic} ELSE {})

\* C16: the TTL duration a storing call computes is the shortest of baseTtlMs and the
\* dynamic preset of every rule that applies to the query's intent, so it is never
\* longer than baseTtlMs.
C16_TtlIsShortestRule ==
  [][\A e \in Engines :
       (calls[e].pc = "fetch" /\ calls'[e].pc = "saveResult") =>
         LET d == calls'[e].ttlAt - now
             rules == ApplicableTtls(extractIntent(calls[e].query), defaultTtlMs(e))
         IN /\ d \in rules
            /\ \A x \in rules : d <= x
            /\ d <= defaultTtlMs(e)]_vars

\* a storing call has computed a TTL duration longer than its baseTtlMs for a query
\* with a timebox
C16_TimeboxLengthensTtl ==
  \E e \in Engines :
    /\ calls[e].pc = "saveResult"
    /\ extractIntent(calls[e].query).timebox /= Undefined
    /\ calls[e].ttlAt - calls[e].at > defaultTtlMs(e)

(* ---------------- C17 ---------------- *)
\* C17: in every state every stored result has an owning query: its query_id is the
\* key of a stored query.
C17_ResultHasOwner ==
  \A r \in results : \E q \in queries : q._key = r.query_id

\* a call has stored an entry and answered "fresh" with its key, and the result it
\* wrote is stored while no query carries that key
C17_StoredResultWithoutQuery ==
  /\ FreshReturned
  /\ returned[1].call.pc = "saveResult"
  /\ \E r \in results : r.query_id = returned[1].result[1].query_id
  /\ \A q \in queries : q._key /= returned[1].result[1].query_id

(* ---------------- C18 ---------------- *)
\* the first n items of a list, in their order
LeadingItems(items, n) == [i \in 1..(IF Len(items) <= n THEN Len(items) ELSE n) |-> items[i]]

\* the items engine e writes in this step, when it writes a result
WrittenItems(e) ==
  IF calls[e].pc = "saveResult" /\ calls'[e].pc = "idle" THEN {calls[e].freshItems}
  ELSE IF calls[e].pc = "fetchExpired" /\ calls'[e].pc = "touchExpired"
       THEN {calls'[e].freshItems}
  ELSE IF tasks[e].pc = "fetch" /\ tasks'[e].pc = "done" THEN FreshOutputsIn(world)
  ELSE {}

\* C18: every stored result holds at most topKCached items of the engine that wrote it
\* (whose revision it carries); whenever a result is written, by the first write of a
\* store or by a refresh in place, its items are the leading topKCached items of the
\* retrieved list, in order.
C18_ItemsCappedAtTopKCached ==
  /\ [](\A r \in results :
          \E e \in Engines : r.model_rev = modelRev(e) /\ Len(r.items) <= topKCached(e))
  /\ [][\A r \in results' \ results :
          \E e \in Engines :
            /\ r.model_rev = modelRev(e)
            /\ \E items \in WrittenItems(e) : r.items = LeadingItems(items, topKCached(e))]_vars

\* a refresh in place has cut a longer retrieved list down to topKCached items
C18_Witness ==
  \E e \in Engines :
    /\ tasks[e].pc = "done"
    /\ \E r \in results :
         /\ r.query_id = tasks[e].queryKey
         /\ r.freshened_at /= None
         /\ r.model_rev = modelRev(e)
         /\ Len(r.items) = topKCached(e)
         /\ \E items \in FreshOutputsIn(world) :
              Len(items) > topKCached(e) /\ r.items = LeadingItems(items, topKCached(e))

(* ---------------- C19 ---------------- *)
\* C19: every stored query has an integer hit_count of at least 1; a query is stored with
\* hit_count 1, and while it is stored its hit_count never decreases.
C19_HitCountFromOneUpwards ==
  /\ [](\A q \in queries : q.hit_count \in Nat /\ q.hit_count >= 1)
  /\ [][\A n \in queries' :
          IF \E q \in queries : q._key = n._key
          THEN \A q \in queries : q._key = n._key => n.hit_count >= q.hit_count
          ELSE n.hit_count = 1]_vars

\* a hit has been answered from an entry that was stored with hit_count 1 and has
\* been touched since
C19_Witness ==
  /\ HitReturned
  /\ \E q \in queries : /\ q._key = returned[1].result[1].query_id
                        /\ q.hit_count >= 2
                        /\ q.last_hit_at = returned[1].call.at

(* ---------------- C20 ---------------- *)
\* the step in which a call answers with source "semantic-cache"
AnswersHit ==
  /\ returned' /= None
  /\ returned'[1].result /= None
  /\ returned'[1].result[1].source = "semantic-cache"

\* the query with key k as a touch at instant t leaves it
Touched(q, t) == [q EXCEPT !.hit_count = @ + 1, !.last_hit_at = t]

\* C20 as stated: in the step in which retrieve or retrieveWithBackgroundRefresh answers
\* "semantic-cache", the matched query's hit_count has grown by exactly 1 and its
\* last_hit_at is the instant of the hit, and the key answered is the matched entry's key,
\* a key handed out before the call.
C20_HitCountedBeforeReturn ==
  [][AnswersHit =>
       LET c == returned'[1].call
           k == c.cached[1].query._key IN
         /\ returned'[1].result[1].query_id = k
         /\ k < nextKey /\ nextKey' = nextKey
         /\ \E q \in queries : q._key = k /\ Touched(q, c.at) \in queries']_vars

\* C20, amended: in the step in which retrieve or retrieveWithBackgroundRefresh answers
\* "semantic-cache", the key answered is the matched entry's key, a key handed out before
\* the call; if the matched query is still stored when the touch executes, its hit_count
\* has grown by exactly 1 and its last_hit_at is the instant of the hit, and if it has been
\* removed since the lookup the touch changes nothing.
C20_HitCountedIfStillStored ==
  [][AnswersHit =>
       LET c == returned'[1].call
           k == c.cached[1].query._key IN
         /\ returned'[1].result[1].query_id = k
         /\ k < nextKey /\ nextKey' = nextKey
         /\ QueryKeys(queries') = QueryKeys(queries)
         /\ \A q \in queries : q._key = k => Touched(q, c.at) \in queries'
         /\ k \notin QueryKeys(queries) => queries' = queries]_vars

\* retrieveWithBackgroundRefresh has answered "semantic-cache" with the matched key and
\* dispatched a refresh, and the matched query carries the hit
C20_Witness ==
  /\ HitReturned
  /\ returned[1].call.proto = "retrieveWithBackgroundRefresh"
  /\ returned[1].call.refresh
  /\ returned[1].result[1].query_id = returned[1].call.cached[1].query._key
  /\ \E q \in queries : /\ q._key = returned[1].result[1].query_id
                        /\ q.hit_count = 2
                        /\ q.last_hit_at = returned[1].call.at

(* ---------------- C21 ---------------- *)
\* the step in which invalidateByModelRev answers
InvalidateAnswers ==
  /\ returned' /= None
  /\ returned'[1].call.proto = "invalidateByModelRev"

\* C21: invalidateByModelRev(rev) removes the results whose model_rev is rev and no
\* other document, answers the number of results it removed, and leaves every query
\* and every result of another revision as it was.
C21_InvalidateRemovesExactlyRev ==
  [][InvalidateAnswers =>
       LET rev == returned'[1].result[1].rev IN
         /\ results' \subseteq results
         /\ \A r \in results : (r \in results') <=> (r.model_rev /= rev)
         /\ returned'[1].result[1].removed = Cardinality(results) - Cardinality(results')
         /\ returned'[1].error = ""
         /\ queries' = queries]_vars

\* an invalidation has removed a result and answered 1, a result of another revision
\* is still stored, and the query that owned the removed result is still stored
C21_Witness ==
  /\ returned /= None
  /\ returned[1].call.proto = "invalidateByModelRev"
  /\ returned[1].result[1].removed = 1
  /\ \E r \in results : r.model_rev /= returned[1].result[1].rev
  /\ \E q \in queries : \A r \in results : r.query_id /= q._key

(* ---------------- C22 ---------------- *)
\* the step in which evictOldEntries answers a number
EvictAnswers ==
  /\ returned' /= None
  /\ returned'[1].call.proto = "evictOldEntries"
  /\ returned'[1].error = ""

\* C22: an eviction sweep that answers removes the queries whose last_hit_at is strictly
\* before now - maxAgeMs and no other query, removes the results those queries own and
\* no other result, and answers the number of queries it removed.
C22_EvictRemovesOldAndCounts ==
  [][EvictAnswers =>
       LET cutoff == now - returned'[1].result[1].maxAgeMs IN
         /\ queries' \subseteq queries
         /\ \A q \in queries : (q \in queries') <=> ~(q.last_hit_at < cutoff)
         /\ results' \subseteq results
         /\ \A r \in results : (r \in results') <=> (r.query_id \in QueryKeys(queries')
                                                     \/ r.query_id \notin QueryKeys(queries))
         /\ returned'[1].result[1].removed
              = Cardinality(queries) - Cardinality(queries')]_vars

\* an eviction sweep has removed old queries that owned no result and answered 0
C22_EvictedButCountedZero ==
  /\ returned /= None
  /\ returned[1].call.proto = "evictOldEntries"
  /\ returned[1].error = ""
  /\ returned[1].call.writes >= 1
  /\ returned[1].result[1].removed = 0

(* ---------------- C23 ---------------- *)
\* the tenant filters a lookup can carry
TenantFilters == TenantArgs \cup { configTenantId(e) : e \in Engines }

\* C23: the first query of clear() leaves no result; when no result has been written
\* since, its second query leaves both collections empty, so that a lookup answers none
\* for every vector and every tenant filter and getStats answers totalQueries = 0,
\* totalHits = 0 and hitRate = 0.
C23_ClearEmptiesBoth ==
  /\ [][(clearPc = "idle" /\ clearPc' = "queries") =>
          (results' = {} /\ queries' = queries)]_vars
  /\ [][(clearPc = "queries" /\ clearPc' = "idle" /\ results = {}) =>
          /\ queries' = {}
          /\ results' = {}
          /\ \A text \in Queries, tid \in TenantFilters :
               (findNearestQuery(embed(normalizeText(text)), tid))' = {None}
          /\ getStats'.totalQueries = 0
          /\ getStats'.totalHits = 0
          /\ getStats'.hitRate.num = 0]_vars

\* entries had been stored, clear() has run, and getStats has answered 0, 0 and 0
C23_Witness ==
  /\ StatsReturned
  /\ nextKey > 1
  /\ MaxAgesIn(world) = {}
  /\ clearPc = "idle"
  /\ queries = {} /\ results = {}
  /\ returned[1].result[1].totalQueries = 0
  /\ returned[1].result[1].totalHits = 0
  /\ returned[1].result[1].hitRate.num = 0

(* ---------------- C24 ---------------- *)
\* C24: every result of retrieve and retrieveWithBackgroundRefresh holds at most
\* topKReturned items: the leading items, in order, of the list the retrieval function
\* gave when the source is "fresh", and of the matched result's items when the source is
\* "semantic-cache".
C24_ReturnedItemsCapped ==
  /\ HitReturned =>
       /\ Len(returned[1].result[1].items) <= topKReturned(returned[1].engine)
       /\ returned[1].result[1].items
            = LeadingItems(returned[1].call.cached[1].results[1].items,
                           topKReturned(returned[1].engine))
  /\ FreshReturned =>
       /\ Len(returned[1].result[1].items) <= topKReturned(returned[1].engine)
       /\ returned[1].result[1].items
            = LeadingItems(returned[1].call.freshItems, topKReturned(returned[1].engine))

\* a hit has answered fewer items than the matched result holds
C24_Witness ==
  /\ HitReturned
  /\ Len(returned[1].result[1].items) = topKReturned(returned[1].engine)
  /\ Len(returned[1].call.cached[1].results[1].items) > topKReturned(returned[1].engine)

(* ---------------- C25 ---------------- *)
\* cosineSimilarity has been applied to a vector and itself
SelfSimilarity == simCall.pc = "done" /\ simCall.a = simCall.b

\* C25 as stated: cosineSimilarity(v, v) is 1 for every vector v, the vectors whose
\* components are all zero included.
C25_SelfSimilarityIsOne ==
  SelfSimilarity =>
    /\ ~simCall.out[1].threw
    /\ SimIsOne(simCall.out[1].value[1])

\* C25, amended: cosineSimilarity(v, v) is 1 for every vector v with a component that
\* is not zero, and 0 for a vector whose components are all zero and for the empty
\* vector.
C25_SelfSimilarityOfNonZero ==
  SelfSimilarity =>
    /\ ~simCall.out[1].threw
    /\ IF \E i \in 1..Len(simCall.a) : simCall.a[i] /= 0
       THEN SimIsOne(simCall.out[1].value[1])
       ELSE simCall.out[1].value[1].dot = 0

\* cosineSimilarity has given 1 for a vector of three components that is not a unit
\* vector
C25_Witness ==
  /\ SelfSimilarity
  /\ Len(simCall.a) = 3
  /\ simCall.a[1] /= simCall.a[2]
  /\ Dot(simCall.a, simCall.a) > 1
  /\ SimIsOne(simCall.out[1].value[1])

(* ---------------- C26 ---------------- *)
\* C26: for every pair of vectors of different length cosineSimilarity throws a
\* dimension-mismatch error that names both lengths and gives no number.
C26_MismatchThrows ==
  (simCall.pc = "done" /\ Len(simCall.a) /= Len(simCall.b)) =>
    /\ simCall.out[1].threw
    /\ simCall.out[1].value = None
    /\ simCall.out[1].message
         = <<"Vector dimension mismatch", Len(simCall.a), Len(simCall.b)>>

\* cosineSimilarity has thrown for a vector of two components and one of three whose
\* leading components agree
C26_Witness ==
  /\ simCall.pc = "done"
  /\ Len(simCall.a) = 2 /\ Len(simCall.b) = 3
  /\ SubSeq(simCall.b, 1, 2) = simCall.a
  /\ Dot(simCall.a, simCall.a) > 0
  /\ simCall.out[1].threw

(* ---------------- C27 ---------------- *)
\* C27: every call of retrieve or retrieveWithBackgroundRefresh that has been made
\* ends, with a result or with an error, whether or not the retrieval function ever
\* completes.
C27_EveryCallEnds ==
  \A e \in Engines : (calls[e].pc /= "idle") ~> (calls[e].pc = "idle")

(* ---------------- C28 ---------------- *)
\* C28: when a retrieve has stored an entry and the identical call that directly follows
\* it hits that entry, the hit answers the item sequence the storing call answered.
C28_HitRepeatsFreshAnswer ==
  [][\A e \in Engines :
       (/\ calls[e].pc = "touch" /\ calls[e].follow /\ fresh /= None
        /\ AnswersHit
        /\ returned'[1].engine = e
        /\ returned'[1].result[1].query_id = fresh[1].key)
         => returned'[1].result[1].items = fresh[1].items]_vars

\* an engine that caches fewer items than it returns has answered a hit on the entry it
\* had just stored, with fewer items than its topKReturned although the retrieval
\* function had given more
C28_HitShorterThanFreshAnswer ==
  /\ HitReturned
  /\ returned[1].call.follow
  /\ topKCached(returned[1].engine) < topKReturned(returned[1].engine)
  /\ returned[1].call.cached[1].results[1].model_rev = modelRev(returned[1].engine)
  /\ Len(returned[1].result[1].items) < topKReturned(returned[1].engine)
  /\ \A items \in FreshOutputsIn(world) : Len(items) >= topKReturned(returned[1].engine)

(* ---------------- C29 ---------------- *)
\* C29: when retrieveWithBackgroundRefresh answers a hit on a non-expired match, it has
\* dispatched a refresh of the matched entry, with the matched query's stored intent, if
\* and only if the matched result carries another revision than the engine's or has less
\* than the realtime preset left before its ttl_at; otherwise it dispatches nothing
\* and has not invoked the retrieval function.
C29_RefreshIffStaleOrNearExpiry ==
  [][\A e \in Engines :
       (calls[e].pc = "touchBg" /\ AnswersHit /\ returned'[1].engine = e) =>
         LET m == calls[e].cached[1]
             due == \/ m.results[1].model_rev /= modelRev(e)
                    \/ m.results[1].ttl_at - calls[e].at < TTL_realtime
         IN /\ m.results[1].ttl_at > calls[e].at
            /\ IF due
               THEN /\ tasks'[e].pc = "fetch"
                    /\ tasks'[e].queryKey = m.query._key
                    /\ tasks'[e].intent = Some(m.query.intent)
               ELSE /\ tasks' = tasks
                    /\ returned'[1].call.fnCalls = 0]_vars

\* a hit has been answered on a match of the engine's revision with exactly the realtime
\* preset left, and no refresh is running
C29_Witness ==
  /\ HitReturned
  /\ returned[1].call.proto = "retrieveWithBackgroundRefresh"
  /\ LET m == returned[1].call.cached[1] IN
       /\ m.results[1].model_rev = modelRev(returned[1].engine)
       /\ m.results[1].ttl_at - returned[1].call.at = TTL_realtime
  /\ ~returned[1].call.refresh
  /\ \A e \in Engines : tasks[e].pc /= "fetch"

(* ---------------- C30 ---------------- *)
\* the step in which engine e's background refresh executes its update
RefreshUpdates(e) == tasks[e].pc = "fetch" /\ tasks'[e].pc = "done"

C31_FailedRefreshCaughtNotRetried ==
  /\ [][\A e \in Engines :
          (tasks[e].pc = "fetch" /\ tasks'[e].pc = "caught") =>
            /\ results' = results /\ queries' = queries /\ nextKey' = nextKey
            /\ calls' = calls
            /\ returned' = None]_vars
  /\ [][\A e \in Engines :
          (tasks[e].pc = "caught" /\ tasks'[e] /= tasks[e]) =>
            /\ calls[e].pc = "touchBg"
            /\ calls[e].proto = "retrieveWithBackgroundRefresh"
            /\ calls[e].refresh
            /\ NeedsRefresh(e, calls[e].cached, calls[e].at)
            /\ tasks'[e].pc = "fetch"
            /\ tasks'[e].queryKey = calls[e].cached[1].query._key
            /\ AnswersHit]_vars

\* a refresh has failed and the result it was dispatched for is stored as store wrote it,
\* with the other engine's revision
C31_Witness ==
  \E e \in Engines :
    /\ tasks[e].pc = "caught"
    /\ \E r \in results : r.model_rev /= modelRev(e) /\ r.freshened_at = None

(* ---------------- C32 ---------------- *)
\* the calls on their miss path: past the lookup, their documents not both written
Missing == { e \in Engines : calls[e].pc \in {"fetch", "saveResult"} }

\* C32: retrieve calls that overlap on their miss paths each write one new query and then
\* one new result under a key of their own, beside everything stored before; each answers
\* "fresh" with its key and without error; and every stored query whose storing call has
\* ended owns exactly one result, which holds the items that call fetched.
C32_OverlappingMissesStoreBoth ==
  /\ [](\A e, x \in Engines :
          (e /= x /\ calls[e].pc = "saveResult" /\ calls[x].pc = "saveResult")
            => calls[e].queryKey /= calls[x].queryKey)
  /\ [](Cardinality(queries) = nextKey - 1)
  /\ [](\A q \in queries :
          IF \E e \in Engines : calls[e].pc = "saveResult" /\ calls[e].queryKey = q._key
          THEN ResultsOf(q._key) = {}
          ELSE Cardinality(ResultsOf(q._key)) = 1)
  /\ [][\A e \in Engines :
          (calls[e].pc = "fetch" /\ calls'[e].pc = "saveResult") =>
            /\ queries \subseteq queries'
            /\ Cardinality(queries') = Cardinality(queries) + 1
            /\ calls'[e].queryKey \notin QueryKeys(queries) \cup ResultOwners(results)
            /\ calls'[e].queryKey \in QueryKeys(queries')
            /\ results' = results]_vars
  /\ [][\A e \in Engines :
          (calls[e].pc = "saveResult" /\ calls'[e].pc = "idle") =>
            /\ queries' = queries
            /\ results \subseteq results'
            /\ results' \ results =
                 {ResultsDoc(calls[e].queryKey, calls[e].freshItems, e, calls[e].ttlAt)}
            /\ calls[e].queryKey \notin ResultOwners(results)
            /\ returned'[1].error = ""
            /\ returned'[1].result /= None
            /\ returned'[1].result[1].source = "fresh"
            /\ returned'[1].result[1].query_id = calls[e].queryKey]_vars

\* two calls were on their miss paths together, with paraphrases of each other and
\* different fetched items; both have ended and both entries are stored, a result each
C32_Witness ==
  /\ \A e \in Engines : calls[e].pc = "idle"
  /\ FreshReturned
  /\ returned[1].call.sawOrphan
  /\ returned[1].call.cached = None
  /\ \E q1, q2 \in queries, r1, r2 \in results :
       /\ q1._key /= q2._key
       /\ q1.q_text_norm /= q2.q_text_norm
       /\ r1.query_id = q1._key /\ r2.query_id = q2._key
       /\ r1.items /= r2.items
       /\ Cardinality(ResultsOf(q1._key)) = 1
       /\ Cardinality(ResultsOf(q2._key)) = 1

C34_HitTouchesCountersOnly ==
  [][\A e \in Engines :
       (/\ calls[e].pc \in {"touch", "touchBg"} /\ calls'[e].pc = "idle"
        /\ AnswersHit /\ returned'[1].engine = e) =>
         LET k == calls[e].cached[1].query._key IN
           /\ results' = results
           /\ nextKey' = nextKey
           /\ QueryKeys(queries') = QueryKeys(queries)
           /\ Cardinality(queries') = Cardinality(queries)
           /\ \A q \in queries :
                IF q._key = k
                THEN \E q2 \in queries' :
                       q = [q2 EXCEPT !.last_hit_at = q.last_hit_at,
                                      !.hit_count = q.hit_count]
                ELSE q \in queries']_vars

\* a hit has been answered an hour after the entry was stored: the matched query has
\* its second hit and a last_hit_at after its created_at, and its result is the one
\* store wrote
C34_Witness ==
  /\ HitReturned
  /\ \E q \in queries, r \in results :
       /\ q._key = returned[1].result[1].query_id
       /\ r.query_id = q._key
       /\ q.hit_count = 2
       /\ q.last_hit_at > q.created_at
       /\ r.freshened_at = None
       /\ returned[1].call.cached[1].results[1].items = r.items

(* ---------------- C35 ---------------- *)
\* the entries of the lookup's partition that are above the threshold, own a result and
\* are valid for engine e at instant t
ValidCandidates(e, tenantArg, text, t) ==
  { m \in Candidates(embed(normalizeText(text)), effectiveTenantId(e, tenantArg)) :
      isModelMatch(e, m) /\ isNotExpired(m, t) }

\* C35: a retrieve whose lookup runs while its partition holds an entry above the
\* threshold with the engine's revision and an unexpired ttl_at goes on to answer
\* "semantic-cache": it does not take the miss path.
C35_ValidEntryNeverHidden ==
  [][\A e \in Engines :
       (/\ LookupAnswers(e)
        /\ calls'[e].proto = "retrieve"
        /\ ValidCandidates(e, calls'[e].tenantArg, calls'[e].query, now) /= {}) =>
         calls'[e].pc = "touch"]_vars

\* a retrieve is on its miss path after its lookup answered with a stale entry, while
\* an entry written by store and valid for the engine is stored in the partition
C35_StaleEntryHidesValid ==
  \E e \in Engines :
    /\ calls[e].pc = "fetch"
    /\ calls[e].proto = "retrieve"
    /\ calls[e].cached /= None
    /\ calls[e].at = now
    /\ \A x \in Engines : tasks[x].pc = "idle"
    /\ \E m \in ValidCandidates(e, calls[e].tenantArg, calls[e].query, now) :
         /\ m.query._key /= calls[e].cached[1].query._key
         /\ SimGeq(calls[e].cached[1].similarity, m.similarity)

(* ---------------- C36 ---------------- *)
\* the expired path of retrieveWithBackgroundRefresh has just answered
ExpiredPathReturned ==
  /\ FreshReturned
  /\ returned[1].call.proto = "retrieveWithBackgroundRefresh"
  /\ returned[1].call.pc = "touchExpired"

\* C36: when the expired path of retrieveWithBackgroundRefresh answers "fresh" with key
\* k, a result of k is stored that holds the first topKCached fresh items, the engine's
\* revision and a ttl_at after now.
C36_ExpiredPathLeavesFreshResult ==
  ExpiredPathReturned =>
    \E r \in results :
      /\ r.query_id = returned[1].result[1].query_id
      /\ r.items = Slice(returned[1].call.freshItems, topKCached(returned[1].engine))
      /\ r.model_rev = modelRev(returned[1].engine)
      /\ r.ttl_at > now

\* the expired path has answered "fresh" with the key of a query that is stored and
\* owns no result: its update found no document
C36_FreshAnsweredNothingStored ==
  /\ ExpiredPathReturned
  /\ returned[1].call.matched = 0
  /\ returned[1].result[1].query_id \in QueryKeys(queries)
  /\ returned[1].result[1].query_id \notin ResultOwners(results)

(* ---------------- C37 ---------------- *)
\* totalHits - totalQueries of getStats
HitsBeyondStore == getStats.totalHits - getStats.totalQueries

\* C37: where nothing is deleted, totalQueries is the number of calls that have stored a
\* new entry, and totalHits - totalQueries is the number of calls that have answered
\* "semantic-cache": it grows by one in the step in which a call answers
\* "semantic-cache" and in no other step.
C37_StatsCountStoresAndHits ==
  /\ [](getStats.totalQueries = nextKey - 1)
  /\ [][HitsBeyondStore' - HitsBeyondStore = (IF AnswersHit THEN 1 ELSE 0)]_vars

\* one entry was ever stored and the only touch of its query is that of a call that has
\* just answered "fresh" on the expired path: totalHits - totalQueries is 1
C37_FreshAnswerCountedAsHit ==
  /\ ExpiredPathReturned
  /\ nextKey = 2
  /\ getStats.totalQueries = 1
  /\ getStats.totalHits = 2

(* ---------------- C38 ---------------- *)
\* C38: in every reachable state no two stored results carry the same query_id.
C38_OneResultPerQuery ==
  \A r1, r2 \in results : r1.query_id = r2.query_id => r1 = r2

\* two entries are stored, a result each, and one of the results has been refreshed in
\* place
C38_Witness ==
  /\ Cardinality(queries) = 2
  /\ \A q \in queries : Cardinality(ResultsOf(q._key)) = 1
  /\ Cardinality(results) = 2
  /\ \E r \in results : r.freshened_at /= None

(* ---------------- C39 ---------------- *)
\* C39: a retrieve call that answers "fresh" has invoked the retrieval function once, one
\* that answers "semantic-cache" has not invoked it and has started no refresh; a
\* retrieveWithBackgroundRefresh call, however it ends, has invoked it at most once,
\* and not at all when it has dispatched a refresh.  A refresh starts only in the step in
\* which a retrieveWithBackgroundRefresh call answers a hit, and it runs its retrieval
\* once: from its fetch it goes to its end.
C39_RetrievalInvocations ==
  /\ [](\A o \in Observed : o[2].fnCalls <= 1)
  /\ []((returned /= None /\ returned[1].call.proto = "retrieve" /\ returned[1].result /= None)
          => returned[1].call.fnCalls
               = (IF returned[1].result[1].source = "fresh" THEN 1 ELSE 0))
  /\ [][\A e \in Engines :
          (tasks'[e].pc = "fetch" /\ tasks[e].pc /= "fetch") =>
            /\ calls[e].pc = "touchBg"
            /\ calls[e].proto = "retrieveWithBackgroundRefresh"
            /\ calls[e].fnCalls = 0
            /\ AnswersHit /\ returned'[1].engine = e
            /\ returned'[1].call.fnCalls = 0]_vars
  /\ [][\A e \in Engines :
          tasks[e].pc = "fetch" =>
            IF tasks'[e].pc = "fetch"
            THEN tasks'[e].queryKey = tasks[e].queryKey /\ tasks'[e].intent = tasks[e].intent
            ELSE tasks'[e].pc \in {"done", "caught"}]_vars

\* a retrieveWithBackgroundRefresh call has answered a hit without invoking the
\* retrieval function, and the refresh it dispatched is waiting for its one invocation
C39_Witness ==
  /\ HitReturned
  /\ returned[1].call.proto = "retrieveWithBackgroundRefresh"
  /\ returned[1].call.refresh
  /\ returned[1].call.fnCalls = 0
  /\ tasks[returned[1].engine].pc = "fetch"
  /\ tasks[returned[1].engine].queryKey = returned[1].result[1].query_id

====
